---- MODULE Spec2Model ----
(***************************************************************************)
(* The PBFT consensus node of sawtooth-pbft (src/node.rs): PbftNode and    *)
(* the state, message log and service it drives.  Every handler is an      *)
(* operator from a node record (and its input) to [s, res]: the node       *)
(* record after the call and the Result the call returns.  A broadcast     *)
(* re-enters on_peer_message with the node's own message, as the           *)
(* production build of _broadcast_message does.                            *)
(***************************************************************************)
EXTENDS Integers, Sequences, FiniteSets, TLC

\* nodes: the node records; net: the peer messages the run offers or has
\* broadcast; slow: the nodes the network and the host serve in any order;
\* sent: the PrePrepares the nodes have broadcast so far
VARIABLES nodes, net, slow, sent

vars == <<nodes, net, slow, sent>>

(***************************************************************************)
(* Configuration and bounds                                                *)
(***************************************************************************)
\* number of peers of the network (mock_config(4))
N == 4
\* PbftState::f, (N - 1) / 3
F == (N - 1) \div 3
\* the roster: peer ids are the node ids 0 .. N-1, in roster order
Roster == 0 .. (N - 1)
\* config.checkpoint_period
CheckpointPeriod == 2
\* the peer backlog is not fed by the network beyond this length
MaxBacklog == 1
\* the block backlog is not fed by the host beyond this length
MaxBlockBacklog == 1
\* a primary is not handed new blocks beyond this sequence number
MaxSeq == 2

(***************************************************************************)
(* Blocks of the validator's block store                                   *)
(***************************************************************************)
NoId == "none"
Block(id, num, prev) == [block_id |-> id, block_num |-> num, previous_id |-> prev]
Genesis == Block("B0", 0, NoId)
B1 == Block("B1", 1, "B0")
B2 == Block("B2", 1, "B0")
B3 == Block("B3", 2, "B1")
BlockStore == {Genesis, B1, B2, B3}
BlockIds == {b.block_id : b \in BlockStore}

\* PbftBlock: the projection of a block that consensus messages carry
PbftBlock(id, num) == [block_id |-> id, block_num |-> num]
pbft_block_from_block(block) == PbftBlock(block.block_id, block.block_num)
\* PbftBlock::new()
EmptyBlock == PbftBlock(NoId, 0)

(***************************************************************************)
(* Messages                                                                *)
(***************************************************************************)
MulticastTypes == {"PrePrepare", "Prepare", "Commit"}
MessageTypes == {"BlockNew", "PrePrepare", "Prepare", "Commit", "Checkpoint",
                 "ViewChange", "Unset"}

\* PbftMessageType: the ordinal that orders the types
TypeOrd(t) ==
  CASE t = "BlockNew"   -> 0
    [] t = "PrePrepare" -> 1
    [] t = "Prepare"    -> 2
    [] t = "Commit"     -> 3
    [] t = "Checkpoint" -> 4
    [] t = "ViewChange" -> 5
    [] OTHER            -> 6

is_multicast(t) == t \in MulticastTypes

\* make_msg_info + PbftMessage: {info, block}; checkpoint_messages is only
\* filled in a ViewChange
Msg(t, view, seq, signer, block) ==
  [msg_type |-> t, view |-> view, seq_num |-> seq, signer_id |-> signer,
   block |-> block, checkpoint_messages |-> {}]

ViewChangeMsg(view, seq, signer, cps) ==
  [msg_type |-> "ViewChange", view |-> view, seq_num |-> seq,
   signer_id |-> signer, block |-> EmptyBlock, checkpoint_messages |-> cps]

\* PeerMessage {message_type, content}: content is the serialised message,
\* or bytes that do not decode
PeerMsg(m) == [message_type |-> m.msg_type, decodes |-> TRUE, content |-> m]
GarbageMsg(t) ==
  [message_type |-> t, decodes |-> FALSE,
   content |-> Msg("Unset", 0, 0, 0, EmptyBlock)]

(***************************************************************************)
(* Results                                                                 *)
(***************************************************************************)
Ok(s) == [s |-> s, res |-> "Ok"]
Err(s, e) == [s |-> s, res |-> e]

\* a service call the node makes, with the peer message it was handling
NoMsg == Msg("Unset", 0, 0, 0, EmptyBlock)
Call(s, name, arg, by, phase) ==
  [s EXCEPT !.calls = Append(@, [name |-> name, arg |-> arg, by |-> by,
                                 phase |-> phase])]

(***************************************************************************)
(* State (state.rs)                                                        *)
(***************************************************************************)
NoWorkingBlock == [kind |-> "None", block |-> EmptyBlock]
TentativeWorkingBlock(id) == [kind |-> "Tentative", block |-> PbftBlock(id, 0)]
WorkingBlock(pb) == [kind |-> "Accepted", block |-> pb]

Phases == <<"NotStarted", "PrePreparing", "Preparing", "Checking",
            "Committing", "Finished">>
PhaseOrd(p) == CHOOSE i \in 1 .. Len(Phases) : Phases[i] = p

\* PbftState::get_primary_peer_id
get_primary_peer_id(s) == s.view % N

is_primary(s) == s.role = "Primary"

\* PbftState::switch_phase: the target must be the next phase, or NotStarted
switch_phase_ok(s, target) ==
  \/ target = "NotStarted"
  \/ PhaseOrd(target) = PhaseOrd(s.phase) + 1

switch_phase(s, target) ==
  IF switch_phase_ok(s, target)
  THEN [s EXCEPT !.phase = target,
                 !.phases = Append(@, [from |-> s.phase, to |-> target,
                                       by |-> "switch_phase"])]
  ELSE s

\* PbftState::check_msg_type: the type expected in the current phase
check_msg_type(s) ==
  CASE s.phase \in {"NotStarted", "PrePreparing"} -> "PrePrepare"
    [] s.phase \in {"Preparing", "Checking"}      -> "Prepare"
    [] OTHER                                      -> "Commit"

\* PbftState::new together with PbftLog::new and the mock service's chain;
\* timer keeps the Timeout::start and Timeout::stop calls of the last call
NewNode(id) ==
  [id |-> id, view |-> 0, seq_num |-> 0, phase |-> "NotStarted",
   mode |-> "Normal", pre_checkpoint_mode |-> "Normal",
   role |-> IF id = 0 THEN "Primary" ELSE "Secondary",
   working_block |-> NoWorkingBlock, timeout |-> "Inactive",
   log |-> {}, view_changes |-> {}, backlog |-> <<>>, block_backlog |-> <<>>,
   latest_stable_checkpoint |-> [some |-> FALSE, seq_num |-> 0,
                                 checkpoint_messages |-> {}],
   chain |-> <<"B0">>,
   broadcasts |-> <<>>, calls |-> <<>>, phases |-> <<>>, timer |-> <<>>]

(***************************************************************************)
(* Message log (message_log.rs)                                            *)
(***************************************************************************)
add_message(s, m) == [s EXCEPT !.log = @ \cup {m}]
add_view_change(s, vc) == [s EXCEPT !.view_changes = @ \cup {vc}]
push_backlog(s, msg) == [s EXCEPT !.backlog = Append(@, msg)]
push_block_backlog(s, block) == [s EXCEPT !.block_backlog = Append(@, block)]

get_messages_of_type(s, t, seq, view) ==
  {m \in s.log : m.msg_type = t /\ m.seq_num = seq /\ m.view = view}

\* the logged messages of m's type that match m's view and seq_num (and, for
\* the multicast types, m's block)
Matching(s, m) ==
  IF m.msg_type = "ViewChange"
  THEN {x \in s.view_changes : x.view = m.view /\ x.seq_num = m.seq_num}
  ELSE {x \in s.log : /\ x.msg_type = m.msg_type
                      /\ x.view = m.view /\ x.seq_num = m.seq_num
                      /\ (is_multicast(m.msg_type) => x.block = m.block)}

Signers(ms) == {x.signer_id : x \in ms}

\* PbftLog::check_msg_against_log with distinct signers
check_msg_against_log(s, m, count) ==
  Cardinality(Signers(Matching(s, m))) >= count

\* PbftLog::prepared
prepared(s, m) ==
  LET pps == get_messages_of_type(s, "PrePrepare", m.seq_num, m.view)
      prepares == {x \in s.log : /\ x.msg_type = "Prepare"
                                 /\ x.view = m.view /\ x.seq_num = m.seq_num
                                 /\ x.block = m.block}
  IN /\ Cardinality(pps) = 1
     /\ \A pp \in pps : pp.block = m.block
     /\ Cardinality(Signers(prepares)) >= 2 * F + 1

\* PbftLog::committed
committed(s, m) ==
  LET commits == {x \in s.log : /\ x.msg_type = "Commit"
                                /\ x.view = m.view /\ x.seq_num = m.seq_num
                                /\ x.block = m.block}
  IN /\ prepared(s, m)
     /\ Cardinality(Signers(commits)) >= 2 * F + 1

\* PbftLog::fix_seq_nums: the messages it rewrites, and the log after it
FixTargets(s, t, block) == {m \in s.log : m.msg_type = t /\ m.block = block}

fix_seq_nums(s, t, seq, view, block) ==
  [s EXCEPT !.log = (@ \ FixTargets(s, t, block)) \cup
       {[m EXCEPT !.seq_num = seq, !.view = view] : m \in FixTargets(s, t, block)}]

\* PbftLog::get_latest_checkpoint
get_latest_checkpoint(s) ==
  IF s.latest_stable_checkpoint.some THEN s.latest_stable_checkpoint.seq_num ELSE 0

\* PbftLog::garbage_collect
garbage_collect(s, seq, view) ==
  LET proof == get_messages_of_type(s, "Checkpoint", seq, view)
  IN [s EXCEPT !.latest_stable_checkpoint =
                   [some |-> TRUE, seq_num |-> seq, checkpoint_messages |-> proof],
               !.log = {m \in @ : m.seq_num >= seq \/ m \in proof}]

\* PbftLog::at_checkpoint
at_checkpoint(s) == s.seq_num % CheckpointPeriod = 0

(***************************************************************************)
(* Service (the validator behind the node)                                 *)
(***************************************************************************)
BlockOf(id) == CHOOSE b \in BlockStore : b.block_id = id

\* Service::get_chain_head
get_chain_head(s) == BlockOf(s.chain[Len(s.chain)])

\* get_block_by_id: the validator knows the blocks of its store
KnownBlock(id) == id \in BlockIds

\* Service::commit_block: the validator appends the block to its chain
commit_block(s, id, by, phase) ==
  [Call(s, "commit_block", id, by, phase) EXCEPT !.chain = Append(@, id)]

(***************************************************************************)
(* PbftNode: handlers of individual peer messages                          *)
(***************************************************************************)
RECURSIVE on_peer_message(_, _)
RECURSIVE _broadcast_message(_, _)

\* _handle_multicast without the test for a missing working block
_handle_multicast_without_limbo(s, m) ==
  IF m.seq_num > s.seq_num THEN "PushToBacklog"
  ELSE IF m.seq_num = s.seq_num
  THEN IF TypeOrd(m.msg_type) < TypeOrd(check_msg_type(s)) THEN "AddToLog"
       ELSE IF TypeOrd(m.msg_type) > TypeOrd(check_msg_type(s)) THEN "PushToBacklog"
       ELSE "Proceed"
  ELSE "AddToLog"

\* _handle_multicast that lets a message of a past sequence number proceed
_handle_multicast_proceeding_on_old(s, m) ==
  IF m.seq_num > s.seq_num THEN "PushToBacklog"
  ELSE IF m.seq_num = s.seq_num
  THEN IF s.working_block.kind = "None" THEN "AddToLog"
       ELSE IF TypeOrd(m.msg_type) < TypeOrd(check_msg_type(s)) THEN "AddToLog"
       ELSE IF TypeOrd(m.msg_type) > TypeOrd(check_msg_type(s)) THEN "PushToBacklog"
       ELSE "Proceed"
  ELSE "Proceed"

\* PbftNode::_handle_multicast: the not-ready verdict
_handle_multicast(s, m) ==
  IF m.seq_num > s.seq_num THEN "PushToBacklog"
  ELSE IF m.seq_num = s.seq_num
  THEN IF s.working_block.kind = "None" THEN "AddToLog"
       ELSE IF TypeOrd(m.msg_type) < TypeOrd(check_msg_type(s)) THEN "AddToLog"
       ELSE IF TypeOrd(m.msg_type) > TypeOrd(check_msg_type(s)) THEN "PushToBacklog"
       ELSE "Proceed"
  ELSE "AddToLog"

\* _handle_not_ready that also logs the message it pushes to the backlog
_handle_not_ready_logging_backlogged(s, not_ready, m, msg) ==
  CASE not_ready = "PushToBacklog" ->
         Err(add_message(push_backlog(s, [msg EXCEPT !.message_type = m.msg_type]), m),
             "NotReadyForMessage")
    [] not_ready = "AddToLog" -> Err(add_message(s, m), "NotReadyForMessage")
    [] OTHER -> Ok(s)

\* PbftNode::_handle_not_ready
_handle_not_ready(s, not_ready, m, msg) ==
  CASE not_ready = "PushToBacklog" ->
         Err(push_backlog(s, [msg EXCEPT !.message_type = m.msg_type]),
             "NotReadyForMessage")
    [] not_ready = "AddToLog" -> Err(add_message(s, m), "NotReadyForMessage")
    [] OTHER -> Ok(s)

\* PbftNode::_broadcast_pbft_message
_broadcast_pbft_message(s, seq_num, msg_type, block) ==
  IF is_multicast(msg_type) /\ msg_type # check_msg_type(s)
  THEN Ok(s)
  ELSE _broadcast_message(s, Msg(msg_type, s.view, seq_num, s.id, block))

\* PbftNode::_broadcast_message (not(test)): to the peers, then to itself
_broadcast_message(s, m) ==
  on_peer_message([s EXCEPT !.broadcasts = Append(@, m)], PeerMsg(m))

\* _handle_pre_prepare that leaves the working block as it found it
_handle_pre_prepare_keeping_working_block(s, m) ==
  IF m.view # s.view THEN Err(s, "ViewMismatch")
  ELSE IF get_messages_of_type(s, "PrePrepare", m.seq_num, m.view) # {}
  THEN Err(s, "MessageExists")
  ELSE IF is_primary(s)
  THEN LET block_new_msgs == get_messages_of_type(s, "BlockNew", m.seq_num, m.view)
       IN IF Cardinality(block_new_msgs) # 1 THEN Err(s, "WrongNumMessages")
          ELSE IF \E b \in block_new_msgs : b.block # m.block
          THEN Err(s, "BlockMismatch")
          ELSE Ok(s)
  ELSE LET s1 == [s EXCEPT !.seq_num = m.seq_num]
           num_updated == Cardinality(FixTargets(s1, "BlockNew", m.block))
           s2 == fix_seq_nums(s1, "BlockNew", m.seq_num, m.view, m.block)
       IN IF num_updated < 1 THEN Err(s2, "WrongNumMessages")
          ELSE Ok(s2)

\* PbftNode::_handle_pre_prepare
_handle_pre_prepare(s, m) ==
  IF m.view # s.view THEN Err(s, "ViewMismatch")
  ELSE IF get_messages_of_type(s, "PrePrepare", m.seq_num, m.view) # {}
  THEN Err(s, "MessageExists")
  ELSE IF is_primary(s)
  THEN LET block_new_msgs == get_messages_of_type(s, "BlockNew", m.seq_num, m.view)
       IN IF Cardinality(block_new_msgs) # 1 THEN Err(s, "WrongNumMessages")
          ELSE IF \E b \in block_new_msgs : b.block # m.block
          THEN Err(s, "BlockMismatch")
          ELSE Ok([s EXCEPT !.working_block = WorkingBlock(m.block)])
  ELSE LET s1 == [s EXCEPT !.seq_num = m.seq_num]
           num_updated == Cardinality(FixTargets(s1, "BlockNew", m.block))
           s2 == fix_seq_nums(s1, "BlockNew", m.seq_num, m.view, m.block)
       IN IF num_updated < 1 THEN Err(s2, "WrongNumMessages")
          ELSE Ok([s2 EXCEPT !.working_block = WorkingBlock(m.block)])

\* start_view_change that asks for the current view
start_view_change_for_current_view(s) ==
  IF s.mode = "ViewChanging" THEN Ok(s)
  ELSE LET cp == s.latest_stable_checkpoint
       IN _broadcast_message([s EXCEPT !.mode = "ViewChanging"],
            ViewChangeMsg(s.view, IF cp.some THEN cp.seq_num ELSE 0, s.id,
                          IF cp.some THEN cp.checkpoint_messages ELSE {}))

\* PbftNode::start_view_change
start_view_change(s) ==
  IF s.mode = "ViewChanging" THEN Ok(s)
  ELSE LET cp == s.latest_stable_checkpoint
       IN _broadcast_message([s EXCEPT !.mode = "ViewChanging"],
            ViewChangeMsg(s.view + 1, IF cp.some THEN cp.seq_num ELSE 0, s.id,
                          IF cp.some THEN cp.checkpoint_messages ELSE {}))

\* _handle_checkpoint that declares a stable checkpoint on f + 1 messages
_handle_checkpoint_on_weak_quorum(s, m) ==
  LET r1 == IF ~is_primary(s) /\ s.mode # "Checkpointing"
            THEN _broadcast_pbft_message(
                   [s EXCEPT !.pre_checkpoint_mode = s.mode,
                             !.mode = "Checkpointing"],
                   m.seq_num, "Checkpoint", EmptyBlock)
            ELSE Ok(s)
      s2 == r1.s
  IN IF r1.res # "Ok" THEN r1
     ELSE IF s2.mode = "Checkpointing"
     THEN IF ~check_msg_against_log(s2, m, F + 1)
          THEN Err(s2, "WrongNumMessages")
          ELSE Ok([garbage_collect(s2, m.seq_num, m.view)
                     EXCEPT !.mode = s2.pre_checkpoint_mode])
     ELSE Ok(s2)

\* PbftNode::_handle_checkpoint
_handle_checkpoint(s, m) ==
  LET r1 == IF ~is_primary(s) /\ s.mode # "Checkpointing"
            THEN _broadcast_pbft_message(
                   [s EXCEPT !.pre_checkpoint_mode = s.mode,
                             !.mode = "Checkpointing"],
                   m.seq_num, "Checkpoint", EmptyBlock)
            ELSE Ok(s)
      s2 == r1.s
  IN IF r1.res # "Ok" THEN r1
     ELSE IF s2.mode = "Checkpointing"
     THEN IF ~check_msg_against_log(s2, m, 2 * F + 1)
          THEN Err(s2, "WrongNumMessages")
          ELSE Ok([garbage_collect(s2, m.seq_num, m.view)
                     EXCEPT !.mode = s2.pre_checkpoint_mode])
     ELSE Ok(s2)

\* _handle_view_change that completes on f + 1 matching messages
_handle_view_change_on_weak_quorum(s, m) ==
  IF ~check_msg_against_log(s, m, F + 1) THEN Err(s, "WrongNumMessages")
  ELSE LET s1 == [s EXCEPT !.view = m.view]
           wb == s1.working_block
           s2 == IF s1.id = get_primary_peer_id(s1)
                 THEN LET a == Call([s1 EXCEPT !.role = "Primary"],
                                    "cancel_block", NoId, m, s.phase)
                          b == IF wb.kind = "None" THEN a
                               ELSE Call(a, "ignore_block", wb.block.block_id,
                                         m, s.phase)
                      IN Call(b, "initialize_block", NoId, m, s.phase)
                 ELSE [s1 EXCEPT !.role = "Secondary"]
       IN Ok([s2 EXCEPT !.working_block = NoWorkingBlock,
                        !.phase = "NotStarted",
                        !.phases = Append(@, [from |-> s.phase, to |-> "NotStarted",
                                              by |-> "_handle_view_change"]),
                        !.mode = "Normal",
                        !.timeout = "Inactive", !.timer = Append(@, "stop")])

\* _handle_view_change that picks the roles by the view it leaves
_handle_view_change_role_of_old_view(s, m) ==
  IF ~check_msg_against_log(s, m, 2 * F + 1) THEN Err(s, "WrongNumMessages")
  ELSE LET s1 == [s EXCEPT !.view = m.view]
           wb == s1.working_block
           s2 == IF s1.id = get_primary_peer_id(s)
                 THEN LET a == Call([s1 EXCEPT !.role = "Primary"],
                                    "cancel_block", NoId, m, s.phase)
                          b == IF wb.kind = "None" THEN a
                               ELSE Call(a, "ignore_block", wb.block.block_id,
                                         m, s.phase)
                      IN Call(b, "initialize_block", NoId, m, s.phase)
                 ELSE [s1 EXCEPT !.role = "Secondary"]
       IN Ok([s2 EXCEPT !.working_block = NoWorkingBlock,
                        !.phase = "NotStarted",
                        !.phases = Append(@, [from |-> s.phase, to |-> "NotStarted",
                                              by |-> "_handle_view_change"]),
                        !.mode = "Normal",
                        !.timeout = "Inactive", !.timer = Append(@, "stop")])

\* PbftNode::_handle_view_change
_handle_view_change(s, m) ==
  IF ~check_msg_against_log(s, m, 2 * F + 1) THEN Err(s, "WrongNumMessages")
  ELSE LET s1 == [s EXCEPT !.view = m.view]
           wb == s1.working_block
           s2 == IF s1.id = get_primary_peer_id(s1)
                 THEN LET a == Call([s1 EXCEPT !.role = "Primary"],
                                    "cancel_block", NoId, m, s.phase)
                          b == IF wb.kind = "None" THEN a
                               ELSE Call(a, "ignore_block", wb.block.block_id,
                                         m, s.phase)
                      IN Call(b, "initialize_block", NoId, m, s.phase)
                 ELSE [s1 EXCEPT !.role = "Secondary"]
       IN Ok([s2 EXCEPT !.working_block = NoWorkingBlock,
                        !.phase = "NotStarted",
                        !.phases = Append(@, [from |-> s.phase, to |-> "NotStarted",
                                              by |-> "_handle_view_change"]),
                        !.mode = "Normal",
                        !.timeout = "Inactive", !.timer = Append(@, "stop")])

(***************************************************************************)
(* PbftNode::on_peer_message, one operator per branch of the match         *)
(***************************************************************************)
\* PrePrepareBranch without the override of the not-ready verdict
PrePrepareBranch_without_override(s, msg, multicast_not_ready) ==
  LET m == msg.content
      r1 == _handle_not_ready(s, multicast_not_ready, m, msg)
      r2 == _handle_pre_prepare(r1.s, m)
  IN IF r1.res # "Ok" THEN r1
     ELSE IF r2.res # "Ok" THEN r2
     ELSE _broadcast_pbft_message(
            switch_phase(add_message(r2.s, m), "Preparing"),
            m.seq_num, "Prepare", m.block)

PrePrepareBranch(s, msg, multicast_not_ready) ==
  LET m == msg.content
      ignore_not_ready == /\ s.working_block.kind = "Tentative"
                          /\ s.working_block.block.block_id = m.block.block_id
                          /\ m.seq_num = s.seq_num + 1
      r1 == IF ignore_not_ready THEN Ok(s)
            ELSE _handle_not_ready(s, multicast_not_ready, m, msg)
      r2 == _handle_pre_prepare(r1.s, m)
  IN IF r1.res # "Ok" THEN r1
     ELSE IF r2.res # "Ok" THEN r2
     ELSE _broadcast_pbft_message(
            switch_phase(add_message(r2.s, m), "Preparing"),
            m.seq_num, "Prepare", m.block)

\* PrepareBranch without the test that the phase is not yet Checking
PrepareBranch_without_phase_test(s, msg, multicast_not_ready) ==
  LET m == msg.content
      r1 == _handle_not_ready(s, multicast_not_ready, m, msg)
      s2 == add_message(r1.s, m)
  IN IF r1.res # "Ok" THEN r1
     ELSE IF ~prepared(s2, m) THEN Err(s2, "WrongNumMessages")
     ELSE Ok(Call(switch_phase(s2, "Checking"), "check_blocks",
                  m.block.block_id, m, s.phase))

PrepareBranch(s, msg, multicast_not_ready) ==
  LET m == msg.content
      r1 == _handle_not_ready(s, multicast_not_ready, m, msg)
      s2 == add_message(r1.s, m)
  IN IF r1.res # "Ok" THEN r1
     ELSE IF ~prepared(s2, m) THEN Err(s2, "WrongNumMessages")
     ELSE IF s2.phase # "Checking"
     THEN Ok(Call(switch_phase(s2, "Checking"), "check_blocks",
                  m.block.block_id, m, s.phase))
     ELSE Ok(s2)

\* CommitBranch without the test of the committed quorum
CommitBranch_without_committed(s, msg, multicast_not_ready) ==
  LET m == msg.content
      r1 == _handle_not_ready(s, multicast_not_ready, m, msg)
      s2 == add_message(r1.s, m)
      wb == s2.working_block
      s3 == switch_phase(s2, "Finished")
      head == get_chain_head(s3)
  IN IF r1.res # "Ok" THEN r1
     ELSE IF s2.phase # "Committing" THEN Ok(s2)
     ELSE IF wb.kind # "Accepted" THEN Err(s2, "NoWorkingBlock")
     ELSE IF /\ m.block.block_id # wb.block.block_id
             /\ m.block.block_num >= wb.block.block_num
     THEN Err(s3, "BlockMismatch")
     ELSE IF ~KnownBlock(m.block.block_id) THEN Err(s3, "WrongNumBlocks")
     ELSE IF BlockOf(m.block.block_id).previous_id # head.block_id
     THEN Err(push_backlog(s3, msg), "BlockMismatch")
     ELSE Ok([commit_block(s3, m.block.block_id, m, s.phase)
                EXCEPT !.working_block = NoWorkingBlock])

\* CommitBranch that rejects every block but the working block
CommitBranch_only_working_block(s, msg, multicast_not_ready) ==
  LET m == msg.content
      r1 == _handle_not_ready(s, multicast_not_ready, m, msg)
      s2 == add_message(r1.s, m)
      wb == s2.working_block
      s3 == switch_phase(s2, "Finished")
      head == get_chain_head(s3)
  IN IF r1.res # "Ok" THEN r1
     ELSE IF ~committed(s2, m) THEN Err(s2, "WrongNumMessages")
     ELSE IF s2.phase # "Committing" THEN Ok(s2)
     ELSE IF wb.kind # "Accepted" THEN Err(s2, "NoWorkingBlock")
     ELSE IF \/ m.block.block_id # wb.block.block_id
             \/ m.block.block_num < wb.block.block_num
     THEN Err(s3, "BlockMismatch")
     ELSE IF ~KnownBlock(m.block.block_id) THEN Err(s3, "WrongNumBlocks")
     ELSE IF BlockOf(m.block.block_id).previous_id # head.block_id
     THEN Err(push_backlog(s3, msg), "BlockMismatch")
     ELSE Ok([commit_block(s3, m.block.block_id, m, s.phase)
                EXCEPT !.working_block = NoWorkingBlock])

CommitBranch(s, msg, multicast_not_ready) ==
  LET m == msg.content
      r1 == _handle_not_ready(s, multicast_not_ready, m, msg)
      s2 == add_message(r1.s, m)
      wb == s2.working_block
      s3 == switch_phase(s2, "Finished")
      head == get_chain_head(s3)
  IN IF r1.res # "Ok" THEN r1
     ELSE IF ~committed(s2, m) THEN Err(s2, "WrongNumMessages")
     ELSE IF s2.phase # "Committing" THEN Ok(s2)
     ELSE IF wb.kind # "Accepted" THEN Err(s2, "NoWorkingBlock")
     ELSE IF /\ m.block.block_id # wb.block.block_id
             /\ m.block.block_num >= wb.block.block_num
     THEN Err(s3, "BlockMismatch")
     ELSE IF ~KnownBlock(m.block.block_id) THEN Err(s3, "WrongNumBlocks")
     ELSE IF BlockOf(m.block.block_id).previous_id # head.block_id
     THEN Err(push_backlog(s3, msg), "BlockMismatch")
     ELSE Ok([commit_block(s3, m.block.block_id, m, s.phase)
                EXCEPT !.working_block = NoWorkingBlock])

\* CheckpointBranch without the test against the latest stable checkpoint
CheckpointBranch_without_stable_test(s, msg) ==
  LET m == msg.content
  IN IF ~msg.decodes THEN Err(s, "SerializationError")
     ELSE _handle_checkpoint(add_message(s, m), m)

CheckpointBranch(s, msg) ==
  LET m == msg.content
  IN IF ~msg.decodes THEN Err(s, "SerializationError")
     ELSE IF get_latest_checkpoint(s) >= m.seq_num THEN Ok(s)
     ELSE _handle_checkpoint(add_message(s, m), m)

\* ViewChangeBranch that starts a view change on the first ViewChange message
ViewChangeBranch_on_first_message(s, msg) ==
  LET m == msg.content
      s1 == add_view_change(s, m)
      r2 == IF s1.mode # "ViewChanging" THEN start_view_change(s1) ELSE Ok(s1)
  IN IF ~msg.decodes THEN Err(s, "SerializationError")
     ELSE IF /\ s1.mode # "ViewChanging"
             /\ ~(check_msg_against_log(s1, m, 1) /\ m.view > s1.view)
     THEN Ok(s1)
     ELSE IF r2.res # "Ok" THEN r2
     ELSE _handle_view_change(r2.s, m)

ViewChangeBranch(s, msg) ==
  LET m == msg.content
      s1 == add_view_change(s, m)
      r2 == IF s1.mode # "ViewChanging" THEN start_view_change(s1) ELSE Ok(s1)
  IN IF ~msg.decodes THEN Err(s, "SerializationError")
     ELSE IF /\ s1.mode # "ViewChanging"
             /\ ~(check_msg_against_log(s1, m, F + 1) /\ m.view > s1.view)
     THEN Ok(s1)
     ELSE IF r2.res # "Ok" THEN r2
     ELSE _handle_view_change(r2.s, m)

\* on_peer_message that ignores a multicast message that does not decode
on_peer_message_ignoring_undecodable(s, msg) ==
  LET msg_type == msg.message_type
      multicast_not_ready ==
        IF is_multicast(msg_type) THEN _handle_multicast(s, msg.content)
        ELSE "Proceed"
  IN IF is_multicast(msg_type) /\ ~msg.decodes THEN Ok(s)
     ELSE CASE msg_type = "PrePrepare" -> PrePrepareBranch(s, msg, multicast_not_ready)
            [] msg_type = "Prepare"    -> PrepareBranch(s, msg, multicast_not_ready)
            [] msg_type = "Commit"     -> CommitBranch(s, msg, multicast_not_ready)
            [] msg_type = "Checkpoint" -> CheckpointBranch(s, msg)
            [] msg_type = "ViewChange" -> ViewChangeBranch(s, msg)
            [] OTHER                   -> Ok(s)

on_peer_message(s, msg) ==
  LET msg_type == msg.message_type
      multicast_not_ready ==
        IF is_multicast(msg_type) THEN _handle_multicast(s, msg.content)
        ELSE "Proceed"
  IN IF is_multicast(msg_type) /\ ~msg.decodes THEN Err(s, "SerializationError")
     ELSE CASE msg_type = "PrePrepare" -> PrePrepareBranch(s, msg, multicast_not_ready)
            [] msg_type = "Prepare"    -> PrepareBranch(s, msg, multicast_not_ready)
            [] msg_type = "Commit"     -> CommitBranch(s, msg, multicast_not_ready)
            [] msg_type = "Checkpoint" -> CheckpointBranch(s, msg)
            [] msg_type = "ViewChange" -> ViewChangeBranch(s, msg)
            [] OTHER                   -> Ok(s)

(***************************************************************************)
(* PbftNode: updates from the validator and periodic operations            *)
(***************************************************************************)
\* on_block_new that does not start the view-change timer
on_block_new_without_timer(s, block) ==
  LET pbft_block == pbft_block_from_block(block)
      s1 == IF is_primary(s) THEN [s EXCEPT !.seq_num = @ + 1] ELSE s
      msg == Msg("BlockNew", s1.view,
                 IF is_primary(s1) THEN s1.seq_num ELSE 0, s1.id, pbft_block)
      head == get_chain_head(s1)
      s2 == [add_message(switch_phase(s1, "PrePreparing"), msg)
               EXCEPT !.working_block = TentativeWorkingBlock(block.block_id)]
  IN IF \/ block.block_num > head.block_num + 1
        \/ ~switch_phase_ok(s1, "PrePreparing")
     THEN Ok(push_block_backlog(s1, block))
     ELSE IF is_primary(s2)
     THEN _broadcast_pbft_message(s2, s2.seq_num, "PrePrepare", pbft_block)
     ELSE Ok(s2)

\* on_block_new of a primary that keeps its sequence number
on_block_new_keeping_seq_num(s, block) ==
  LET pbft_block == pbft_block_from_block(block)
      msg == Msg("BlockNew", s.view,
                 IF is_primary(s) THEN s.seq_num ELSE 0, s.id, pbft_block)
      head == get_chain_head(s)
      s2 == [add_message(switch_phase(s, "PrePreparing"), msg)
               EXCEPT !.working_block = TentativeWorkingBlock(block.block_id),
                      !.timeout = "Active", !.timer = Append(@, "start")]
  IN IF \/ block.block_num > head.block_num + 1
        \/ ~switch_phase_ok(s, "PrePreparing")
     THEN Ok(push_block_backlog(s, block))
     ELSE IF is_primary(s2)
     THEN _broadcast_pbft_message(s2, s2.seq_num, "PrePrepare", pbft_block)
     ELSE Ok(s2)

on_block_new(s, block) ==
  LET pbft_block == pbft_block_from_block(block)
      s1 == IF is_primary(s) THEN [s EXCEPT !.seq_num = @ + 1] ELSE s
      msg == Msg("BlockNew", s1.view,
                 IF is_primary(s1) THEN s1.seq_num ELSE 0, s1.id, pbft_block)
      head == get_chain_head(s1)
      s2 == [add_message(switch_phase(s1, "PrePreparing"), msg)
               EXCEPT !.working_block = TentativeWorkingBlock(block.block_id),
                      !.timeout = "Active", !.timer = Append(@, "start")]
  IN IF \/ block.block_num > head.block_num + 1
        \/ ~switch_phase_ok(s1, "PrePreparing")
     THEN Ok(push_block_backlog(s1, block))
     ELSE IF is_primary(s2)
     THEN _broadcast_pbft_message(s2, s2.seq_num, "PrePrepare", pbft_block)
     ELSE Ok(s2)

\* start_checkpoint that saves the mode again when already Checkpointing
start_checkpoint_saving_any_mode(s) ==
  IF ~is_primary(s) THEN Ok(s)
  ELSE _broadcast_pbft_message(
         [s EXCEPT !.pre_checkpoint_mode = s.mode, !.mode = "Checkpointing"],
         s.seq_num, "Checkpoint", EmptyBlock)

start_checkpoint(s) ==
  IF ~is_primary(s) THEN Ok(s)
  ELSE IF s.mode = "Checkpointing" THEN Ok(s)
  ELSE _broadcast_pbft_message(
         [s EXCEPT !.pre_checkpoint_mode = s.mode, !.mode = "Checkpointing"],
         s.seq_num, "Checkpoint", EmptyBlock)

\* on_block_commit that stops the timer only when the phase is Finished
on_block_commit_stopping_in_finished(s, block_id) ==
  LET s1 == IF is_primary(s)
            THEN Call(s, "initialize_block", block_id, NoMsg, s.phase)
            ELSE s
      s2 == switch_phase(s1, "NotStarted")
      r3 == IF at_checkpoint(s2) THEN start_checkpoint(s2) ELSE Ok(s2)
  IN IF s.phase = "Finished"
     THEN IF r3.res # "Ok" THEN r3
          ELSE Ok([r3.s EXCEPT !.timeout = "Inactive", !.timer = Append(@, "stop")])
     ELSE Ok(s)

\* on_block_commit that resets the phase whatever it is
on_block_commit_resetting_any_phase(s, block_id) ==
  LET s1 == IF is_primary(s)
            THEN Call(s, "initialize_block", block_id, NoMsg, s.phase)
            ELSE s
      s2 == switch_phase(s1, "NotStarted")
      r3 == IF at_checkpoint(s2) THEN start_checkpoint(s2) ELSE Ok(s2)
  IN IF r3.res # "Ok" THEN r3
     ELSE Ok([r3.s EXCEPT !.timeout = "Inactive", !.timer = Append(@, "stop")])

on_block_commit(s, block_id) ==
  LET s1 == IF is_primary(s)
            THEN Call(s, "initialize_block", block_id, NoMsg, s.phase)
            ELSE s
      s2 == switch_phase(s1, "NotStarted")
      r3 == IF at_checkpoint(s2) THEN start_checkpoint(s2) ELSE Ok(s2)
  IN IF s.phase = "Finished"
     THEN IF r3.res # "Ok" THEN r3
          ELSE Ok([r3.s EXCEPT !.timeout = "Inactive", !.timer = Append(@, "stop")])
     ELSE Ok([s EXCEPT !.timeout = "Inactive", !.timer = Append(@, "stop")])

\* on_block_valid that broadcasts the Commit with the block's number as seq_num
on_block_valid_with_block_num(s, block_id) ==
  LET s1 == switch_phase(s, "Committing")
  IN IF ~KnownBlock(block_id) THEN Err(s1, "WrongNumBlocks")
     ELSE _broadcast_pbft_message(s1, BlockOf(block_id).block_num, "Commit",
                                  pbft_block_from_block(BlockOf(block_id)))

\* on_block_valid that stops the view-change timer
on_block_valid_stopping_timer(s, block_id) ==
  LET s1 == [switch_phase(s, "Committing")
               EXCEPT !.timeout = "Inactive", !.timer = Append(@, "stop")]
  IN IF ~KnownBlock(block_id) THEN Err(s1, "WrongNumBlocks")
     ELSE _broadcast_pbft_message(s1, s1.seq_num, "Commit",
                                  pbft_block_from_block(BlockOf(block_id)))

on_block_valid(s, block_id) ==
  LET s1 == switch_phase(s, "Committing")
  IN IF ~KnownBlock(block_id) THEN Err(s1, "WrongNumBlocks")
     ELSE _broadcast_pbft_message(s1, s1.seq_num, "Commit",
                                  pbft_block_from_block(BlockOf(block_id)))

try_publish(s) ==
  IF is_primary(s) /\ s.phase = "NotStarted"
  THEN Ok(Call(Call(s, "summarize_block", NoId, NoMsg, s.phase),
               "finalize_block", NoId, NoMsg, s.phase))
  ELSE Ok(s)

\* PbftNode::check_timeout_expired: reads the timer, changes nothing
check_timeout_expired(s) == Ok(s)

\* retry_backlog that submits the backlogged block in any mode and phase
retry_backlog_in_any_phase(s) ==
  LET peer_res == IF s.backlog # <<>>
                  THEN on_peer_message([s EXCEPT !.backlog = Tail(@)], Head(s.backlog))
                  ELSE Ok(s)
      s1 == peer_res.s
      r2 == on_block_new([s1 EXCEPT !.block_backlog = Tail(@)], Head(s1.block_backlog))
  IN IF s1.block_backlog # <<>>
     THEN IF r2.res # "Ok" THEN r2 ELSE [s |-> r2.s, res |-> peer_res.res]
     ELSE peer_res

\* retry_backlog that redispatches the newest message of the peer backlog
retry_backlog_newest_first(s) ==
  LET last == Len(s.backlog)
      peer_res == IF s.backlog # <<>>
                  THEN on_peer_message([s EXCEPT !.backlog = SubSeq(@, 1, last - 1)],
                                       s.backlog[last])
                  ELSE Ok(s)
      s1 == peer_res.s
      r2 == on_block_new([s1 EXCEPT !.block_backlog = Tail(@)], Head(s1.block_backlog))
  IN IF s1.mode = "Normal" /\ s1.phase = "NotStarted" /\ s1.block_backlog # <<>>
     THEN IF r2.res # "Ok" THEN r2 ELSE [s |-> r2.s, res |-> peer_res.res]
     ELSE peer_res

retry_backlog(s) ==
  LET peer_res == IF s.backlog # <<>>
                  THEN on_peer_message([s EXCEPT !.backlog = Tail(@)],
                                       Head(s.backlog))
                  ELSE Ok(s)
      s1 == peer_res.s
      r2 == on_block_new([s1 EXCEPT !.block_backlog = Tail(@)],
                         Head(s1.block_backlog))
  IN IF s1.mode = "Normal" /\ s1.phase = "NotStarted" /\ s1.block_backlog # <<>>
     THEN IF r2.res # "Ok" THEN r2 ELSE [s |-> r2.s, res |-> peer_res.res]
     ELSE peer_res

(***************************************************************************)
(* The environment of one node: the host calls one entry point at a time.  *)
(* nodes maps each running node to its record, which keeps the broadcasts, *)
(* the service calls and the phase changes of its last call; net is the    *)
(* set of peer messages the network holds.                                 *)
(***************************************************************************)
Fresh(s) ==
  [s EXCEPT !.broadcasts = <<>>, !.calls = <<>>, !.phases = <<>>, !.timer = <<>>]


\* The repertoires of peer messages a run of one node draws from.
PbB1 == pbft_block_from_block(B1)
PbB2 == pbft_block_from_block(B2)
Signed(t, view, seq, signers, block) ==
  {PeerMsg(Msg(t, view, seq, p, block)) : p \in signers}

\* a round at (view 0, seq 1) on B1, with a second PrePrepare for B2
RoundMsgs ==
  Signed("PrePrepare", 0, 1, {0}, PbB1) \cup Signed("PrePrepare", 0, 1, {0}, PbB2)
  \cup Signed("Prepare", 0, 1, 0 .. 2, PbB1) \cup Signed("Commit", 0, 1, 0 .. 2, PbB1)

\* the PrePrepare of view 0 for B1, and a quorum of view 1 for another block
OtherBlockMsgs(x) ==
  Signed("PrePrepare", 0, 1, {0}, PbB1) \cup Signed("PrePrepare", 1, 1, {1}, x)
  \cup Signed("Prepare", 1, 1, 0 .. 2, x) \cup Signed("Commit", 1, 1, 0 .. 2, x)

\* checkpoints at seq 1 of view 0, after messages of seq 0 and seq 1
CheckpointMsgs ==
  Signed("Checkpoint", 0, 1, 0 .. 2, EmptyBlock)
  \cup Signed("PrePrepare", 0, 1, {0}, PbB1) \cup Signed("Prepare", 0, 0, {2}, PbB1)
  \cup {GarbageMsg("Prepare"), GarbageMsg("Checkpoint"), PeerMsg(NoMsg)}

\* view changes to view 1 and to view 0
ViewChangeMsgs ==
  {PeerMsg(ViewChangeMsg(1, 0, p, {})) : p \in 0 .. 2}
  \cup {PeerMsg(ViewChangeMsg(0, 0, p, {})) : p \in 1 .. 3}
  \cup Signed("PrePrepare", 0, 1, {0}, PbB1) \cup {GarbageMsg("ViewChange")}

\* a round at seq 0, the sequence number a node starts with
Seq0Msgs ==
  Signed("PrePrepare", 0, 0, {0}, PbB1) \cup Signed("Prepare", 0, 0, {0, 2}, PbB1)
  \cup Signed("Commit", 0, 0, {0, 2}, PbB1)

Repertoires ==
  {RoundMsgs, Seq0Msgs, CheckpointMsgs, ViewChangeMsgs,
   OtherBlockMsgs(PbftBlock("B2", 1)), OtherBlockMsgs(PbftBlock("B2", 0)),
   OtherBlockMsgs(PbftBlock("B3", 0)), OtherBlockMsgs(PbftBlock("B9", 0))}

\* a run is one node, the primary 0 or the secondary 1, and a repertoire
Configs ==
  {[self |-> 1, msgs |-> r] : r \in Repertoires}
  \cup {[self |-> 0, msgs |-> r] : r \in {RoundMsgs, CheckpointMsgs, ViewChangeMsgs}}

HostBlocks == BlockStore \ {Genesis}

Init ==
  \E c \in Configs :
    /\ nodes = [i \in {c.self} |-> NewNode(i)]
    /\ net = c.msgs
    /\ slow = {}
    /\ sent = {}

Running == DOMAIN nodes

\* the PrePrepares a call has broadcast
PrePreparesOf(r) ==
  {r.s.broadcasts[k] : k \in {j \in 1 .. Len(r.s.broadcasts) :
                                r.s.broadcasts[j].msg_type = "PrePrepare"}}

\* the node record after a call
Step(i, r) ==
  /\ nodes' = [nodes EXCEPT ![i] = r.s]
  /\ sent' = sent \cup PrePreparesOf(r)
  /\ UNCHANGED slow

PeerMessage ==
  \E i \in Running, msg \in net :
    /\ Len(nodes[i].backlog) < MaxBacklog
    /\ Step(i, on_peer_message(Fresh(nodes[i]), msg))
    /\ UNCHANGED net

BlockNew ==
  \E i \in Running, block \in HostBlocks :
    /\ Len(nodes[i].block_backlog) < MaxBlockBacklog
    /\ nodes[i].seq_num < MaxSeq
    /\ Step(i, on_block_new(Fresh(nodes[i]), block))
    /\ UNCHANGED net

BlockValid ==
  \E i \in Running, block \in HostBlocks :
    /\ Step(i, on_block_valid(Fresh(nodes[i]), block.block_id))
    /\ UNCHANGED net

\* the validator announces the commit of its chain head
BlockCommit ==
  \E i \in Running :
    /\ Step(i, on_block_commit(Fresh(nodes[i]), get_chain_head(nodes[i]).block_id))
    /\ UNCHANGED net

TryPublish ==
  \E i \in Running :
    /\ Step(i, try_publish(Fresh(nodes[i])))
    /\ UNCHANGED net

CheckTimeoutExpired ==
  \E i \in Running :
    /\ Step(i, check_timeout_expired(Fresh(nodes[i])))
    /\ UNCHANGED net

RetryBacklog ==
  \E i \in Running :
    /\ nodes[i].seq_num < MaxSeq
    /\ Step(i, retry_backlog(Fresh(nodes[i])))
    /\ UNCHANGED net

\* the host starts a view change when the timer has expired
StartViewChange ==
  \E i \in Running :
    /\ nodes[i].timeout = "Active"
    /\ Step(i, start_view_change(Fresh(nodes[i])))
    /\ UNCHANGED net

Next ==
  \/ PeerMessage
  \/ BlockNew
  \/ BlockValid
  \/ BlockCommit
  \/ TryPublish
  \/ CheckTimeoutExpired
  \/ RetryBacklog
  \/ StartViewChange

Spec == Init /\ [][Next]_vars

(***************************************************************************)
(* Properties.  A node record keeps the service calls and broadcasts of    *)
(* its last call, so a state predicate on nodes speaks of what that call   *)
(* did; a predicate applying a handler to Fresh(nodes[i]) speaks of what   *)
(* the next call would do from a reachable state.                          *)
(***************************************************************************)
CallsOf(s, name) == {k \in 1 .. Len(s.calls) : s.calls[k].name = name}

PrePreparesAt(log, m) ==
  {x \in log : x.msg_type = "PrePrepare" /\ x.view = m.view /\ x.seq_num = m.seq_num}

VotesFor(log, t, m) ==
  {x.signer_id : x \in {y \in log : /\ y.msg_type = t
                                    /\ y.view = m.view /\ y.seq_num = m.seq_num
                                    /\ y.block = m.block}}

PreparedCertificate(log, m) ==
  /\ Cardinality(PrePreparesAt(log, m)) = 1
  /\ \A pp \in PrePreparesAt(log, m) : pp.block = m.block
  /\ Cardinality(VotesFor(log, "Prepare", m)) >= 2 * F + 1

CommittedCertificate(log, m) ==
  /\ PreparedCertificate(log, m)
  /\ Cardinality(VotesFor(log, "Commit", m)) >= 2 * F + 1

\* the peer messages of a type that the network can deliver
Deliverable(t) == {msg \in net : msg.decodes /\ msg.message_type = t}

\* C2: every commit_block call is made while handling a Commit m in phase
\* Committing, for m's block, with the log holding exactly one PrePrepare at
\* (m.view, m.seq_num), on m's block, and 2f+1 distinct-signer matching
\* Prepares and 2f+1 distinct-signer matching Commits
C2_CommitOnlyWhenCommitted ==
  \A i \in Running : \A k \in CallsOf(nodes[i], "commit_block") :
    LET c == nodes[i].calls[k]
    IN /\ c.phase = "Committing"
       /\ c.by.msg_type = "Commit"
       /\ c.arg = c.by.block.block_id
       /\ CommittedCertificate(nodes[i].log, c.by)

\* a call has committed a block
C2_Witness ==
  \E i \in Running : CallsOf(nodes[i], "commit_block") # {}

\* C3: the log of a node never holds two PrePrepare messages with the same
\* (view, seq_num)
C3_OnePrePreparePerViewSeq ==
  \A i \in Running : \A m1, m2 \in nodes[i].log :
    (/\ m1.msg_type = "PrePrepare" /\ m2.msg_type = "PrePrepare"
     /\ m1.view = m2.view /\ m1.seq_num = m2.seq_num) => m1 = m2

\* the case of a Commit that completes the committed quorum in phase
\* Committing
CompletesCommit(s, msg) ==
  /\ _handle_multicast(s, msg.content) = "Proceed"
  /\ committed(add_message(s, msg.content), msg.content)
  /\ s.phase = "Committing"

\* C4: when a Commit m completes the committed quorum in phase Committing,
\* commit_block is issued only if the working block is Accepted(w) with
\* m.block.block_id = w.block_id and m.block.block_num >= w.block_num; without
\* an Accepted working block the result is NoWorkingBlock, in every other
\* case BlockMismatch, and commit_block is not issued
C4_CommitOnlyWorkingBlock ==
  \A i \in Running : \A msg \in Deliverable("Commit") :
    LET s == Fresh(nodes[i])
        m == msg.content
        w == s.working_block
        r == on_peer_message(s, msg)
        agrees == /\ m.block.block_id = w.block.block_id
                  /\ m.block.block_num >= w.block.block_num
    IN CompletesCommit(s, msg) =>
         IF w.kind # "Accepted"
         THEN r.res = "NoWorkingBlock" /\ CallsOf(r.s, "commit_block") = {}
         ELSE IF agrees THEN TRUE
         ELSE r.res = "BlockMismatch" /\ CallsOf(r.s, "commit_block") = {}

\* C4 amended: when a Commit m completes the committed quorum in phase
\* Committing, it is rejected with NoWorkingBlock without an Accepted working
\* block, and with BlockMismatch when m.block.block_id differs from
\* w.block_id and m.block.block_num >= w.block_num; in every other case (the
\* working block's id, or another block with a smaller block_num) the
\* handler goes on, and issues commit_block for m's block exactly when the
\* block is known and its previous_id is the chain head's block_id
C4_CommitUnlessNewerOtherBlock ==
  \A i \in Running : \A msg \in Deliverable("Commit") :
    LET s == Fresh(nodes[i])
        m == msg.content
        w == s.working_block
        r == on_peer_message(s, msg)
        issued == CallsOf(r.s, "commit_block") # {}
        on_head == /\ KnownBlock(m.block.block_id)
                   /\ BlockOf(m.block.block_id).previous_id
                        = get_chain_head(s).block_id
    IN CompletesCommit(s, msg) =>
         IF w.kind # "Accepted"
         THEN r.res = "NoWorkingBlock" /\ ~issued
         ELSE IF /\ m.block.block_id # w.block.block_id
                 /\ m.block.block_num >= w.block.block_num
         THEN r.res = "BlockMismatch" /\ ~issued
         ELSE /\ issued <=> on_head
              /\ issued => /\ r.res = "Ok"
                           /\ \A k \in CallsOf(r.s, "commit_block") :
                                r.s.calls[k].arg = m.block.block_id
              /\ ~issued => r.res \in {"WrongNumBlocks", "BlockMismatch"}

\* a node has committed a block that was never its working block
C4_Witness ==
  \E i \in Running : \E k \in CallsOf(nodes[i], "commit_block") :
    \A x \in nodes[i].log :
      x.msg_type = "BlockNew" => x.block.block_id # nodes[i].calls[k].arg

\* C5: a Commit that completes the committed quorum in phase Committing
\* moves the phase to Finished and clears working_block only when it issues
\* commit_block; when it ends with BlockMismatch, NoWorkingBlock or
\* WrongNumBlocks the phase is still Committing and working_block unchanged
C5_FinishedOnlyOnCommit ==
  \A i \in Running : \A msg \in Deliverable("Commit") :
    LET s == Fresh(nodes[i])
        r == on_peer_message(s, msg)
    IN CompletesCommit(s, msg) =>
         IF CallsOf(r.s, "commit_block") # {}
         THEN r.s.phase = "Finished" /\ r.s.working_block = NoWorkingBlock
         ELSE /\ r.res \in {"BlockMismatch", "NoWorkingBlock", "WrongNumBlocks"}
              /\ r.s.phase = "Committing"
              /\ r.s.working_block = s.working_block

\* on_block_new admits the block: it neither is ahead of the chain head's
\* successor nor arrives in a phase other than NotStarted
Admitted(s, block) ==
  /\ block.block_num <= get_chain_head(s).block_num + 1
  /\ s.phase = "NotStarted"

Deferred(s, block, seq) ==
  [s EXCEPT !.block_backlog = Append(@, block), !.seq_num = seq]

\* the state in which retry_backlog re-submits the head of the block backlog
\* and nothing else
Resubmits(s) ==
  /\ s.backlog = <<>> /\ s.block_backlog # <<>>
  /\ s.mode = "Normal" /\ s.phase = "NotStarted"

\* C7: a deferred on_block_new appends the block to the block
\* backlog and changes nothing else (phase, working_block, log, timer, no
\* broadcast), seq_num included, on a primary too and on every re-submission
\* by retry_backlog
C7_DeferralFrame ==
  \A i \in Running :
    LET s == Fresh(nodes[i])
        again == [s EXCEPT !.block_backlog = Tail(@)]
    IN /\ \A block \in HostBlocks :
            ~Admitted(s, block) =>
              on_block_new(s, block) = Ok(Deferred(s, block, s.seq_num))
       /\ (Resubmits(s) /\ ~Admitted(s, Head(s.block_backlog))) =>
            retry_backlog(s) = Ok(Deferred(again, Head(s.block_backlog), s.seq_num))

\* C8: a secondary in PrePreparing at seq_num n with working_block
\* Tentative(b) and a BlockNew for the block logged, receiving
\* PrePrepare(its view, n + 1, block), accepts it whatever the not-ready
\* verdict: seq_num is n + 1, working_block Accepted(block), the phase
\* Preparing, the PrePrepare and the BlockNew re-stamped with n + 1 are in
\* the log, and a Prepare for (n + 1, block) is broadcast
C8_SecondaryAcceptsNextPrePrepare ==
  \A i \in Running : \A msg \in Deliverable("PrePrepare") :
    LET s == Fresh(nodes[i])
        m == msg.content
        r == on_peer_message(s, msg)
    IN (/\ ~is_primary(s) /\ s.phase = "PrePreparing"
        /\ s.working_block = TentativeWorkingBlock(m.block.block_id)
        /\ FixTargets(s, "BlockNew", m.block) # {}
        /\ m.view = s.view /\ m.seq_num = s.seq_num + 1) =>
         /\ _handle_multicast(s, m) = "PushToBacklog"
         /\ r.s.seq_num = s.seq_num + 1
         /\ r.s.working_block = WorkingBlock(m.block)
         /\ r.s.phase = "Preparing"
         /\ m \in r.s.log
         /\ \A x \in FixTargets(r.s, "BlockNew", m.block) :
              x.seq_num = s.seq_num + 1 /\ x.view = s.view
         /\ FixTargets(r.s, "BlockNew", m.block) # {}
         /\ r.s.backlog = s.backlog
         /\ r.s.broadcasts = <<Msg("Prepare", s.view, s.seq_num + 1, s.id, m.block)>>

\* a secondary that has adopted seq_num 1 from a PrePrepare
C8_Witness ==
  \E i \in Running :
    /\ ~is_primary(nodes[i]) /\ nodes[i].phase = "Preparing"
    /\ nodes[i].view = 0 /\ nodes[i].seq_num = 1
    /\ nodes[i].working_block.kind = "Accepted"
    /\ Len(nodes[i].broadcasts) = 1
    /\ nodes[i].broadcasts[1].msg_type = "Prepare"
    /\ nodes[i].broadcasts[1].seq_num = 1
    /\ \E x \in nodes[i].log :
         x.msg_type = "BlockNew" /\ x.seq_num = 1 /\ x.signer_id = i

\* the case of a Prepare that completes the prepared quorum in phase
\* Preparing
CompletesPrepare(s, msg) ==
  /\ _handle_multicast(s, msg.content) = "Proceed"
  /\ prepared(add_message(s, msg.content), msg.content)
  /\ s.phase = "Preparing"

\* C9: a Prepare that completes the prepared quorum (one PrePrepare at its
\* view and seq_num, on its block, and 2f+1 distinct-signer matching
\* Prepares) while the phase is Preparing moves the phase to Checking and
\* calls check_blocks once for its block; any other Prepare, one received in
\* Checking included, leaves the phase alone and calls nothing; no call
\* makes more than one check_blocks call
C9_CheckBlocksOnFirstPrepared ==
  /\ \A i \in Running :
       /\ Cardinality(CallsOf(nodes[i], "check_blocks")) <= 1
       /\ \A k \in CallsOf(nodes[i], "check_blocks") :
            LET c == nodes[i].calls[k]
            IN /\ c.phase = "Preparing" /\ nodes[i].phase = "Checking"
               /\ c.by.msg_type = "Prepare"
               /\ c.arg = c.by.block.block_id
               /\ PreparedCertificate(nodes[i].log, c.by)
  /\ \A i \in Running : \A msg \in Deliverable("Prepare") :
       LET s == Fresh(nodes[i])
           r == on_peer_message(s, msg)
       IN IF CompletesPrepare(s, msg)
          THEN /\ r.s.phase = "Checking"
               /\ Cardinality(CallsOf(r.s, "check_blocks")) = 1
               /\ \A k \in CallsOf(r.s, "check_blocks") :
                    r.s.calls[k].arg = msg.content.block.block_id
          ELSE r.s.phase = s.phase /\ r.s.calls = <<>>

\* a Prepare from a peer has moved a node to Checking
C9_Witness ==
  \E i \in Running :
    /\ nodes[i].phase = "Checking"
    /\ \E k \in CallsOf(nodes[i], "check_blocks") :
         nodes[i].calls[k].by.signer_id # i

\* the Commit on_block_valid broadcasts, and whether its delivery to the
\* node itself completes the committed quorum
OwnCommit(s, block_id) ==
  Msg("Commit", s.view, s.seq_num, s.id, pbft_block_from_block(BlockOf(block_id)))

OwnCommitCompletes(s, block_id) ==
  /\ s.working_block.kind # "None"
  /\ committed(add_message(s, OwnCommit(s, block_id)), OwnCommit(s, block_id))

\* C10 as stated: on_block_valid in phase Checking leaves the node in
\* Committing with Commit(view, seq_num, block) broadcast; in any other
\* phase it leaves the phase unchanged
C10_BlockValidAsStated ==
  \A i \in Running : \A block \in HostBlocks :
    LET s == Fresh(nodes[i])
        r == on_block_valid(s, block.block_id)
    IN IF s.phase = "Checking"
       THEN /\ r.s.phase = "Committing"
            /\ r.s.broadcasts = <<OwnCommit(s, block.block_id)>>
       ELSE r.s.phase = s.phase

\* C10 amended: on_block_valid in phase Checking moves the phase to
\* Committing and broadcasts Commit(view, seq_num, block); the Commit is
\* delivered to the node itself in the same call, and when it completes the
\* committed quorum the call goes on through the commit path and ends in
\* Finished.  In any other phase no switch to Committing happens: the phase
\* is unchanged, except that in Committing the Commit is broadcast again and
\* can complete the quorum in the same way
C10_BlockValid ==
  \A i \in Running : \A block \in HostBlocks :
    LET s == Fresh(nodes[i])
        r == on_block_valid(s, block.block_id)
        done == OwnCommitCompletes(s, block.block_id)
    IN /\ s.phase = "Checking" =>
            /\ r.s.broadcasts = <<OwnCommit(s, block.block_id)>>
            /\ r.s.phase = IF done THEN "Finished" ELSE "Committing"
       /\ s.phase = "Committing" =>
            /\ r.s.broadcasts = <<OwnCommit(s, block.block_id)>>
            /\ r.s.phase = IF done THEN "Finished" ELSE "Committing"
       /\ s.phase \notin {"Checking", "Committing"} =>
            /\ r.s.phase = s.phase
            /\ s.phase # "Finished" => r.s.broadcasts = <<>>

\* on_block_valid has moved a node from Checking to Committing
C10_Witness ==
  \E i \in Running :
    /\ nodes[i].phase = "Committing" /\ nodes[i].calls = <<>>
    /\ Len(nodes[i].broadcasts) = 1
    /\ nodes[i].broadcasts[1].msg_type = "Commit"
    /\ nodes[i].broadcasts[1] \in nodes[i].log
    /\ Cardinality(VotesFor(nodes[i].log, "Commit", nodes[i].broadcasts[1])) = 1

C12_BlockCommitFrameAsStated ==
  \A i \in Running : \A block \in HostBlocks :
    LET s == Fresh(nodes[i])
    IN s.phase # "Finished" => on_block_commit(s, block.block_id) = Ok(s)

\* C12 amended: on_block_commit in a phase other than Finished makes no
\* service call and no broadcast and leaves phase, mode, seq_num,
\* working_block and the log unchanged, but it stops the view-change timer
C12_BlockCommitFrame ==
  \A i \in Running : \A block \in HostBlocks :
    LET s == Fresh(nodes[i])
    IN s.phase # "Finished" =>
         on_block_commit(s, block.block_id)
           = Ok([s EXCEPT !.timeout = "Inactive", !.timer = Append(@, "stop")])

\* a node in the middle of a round whose timer a BlockCommit has stopped
C12_Witness ==
  \E i \in Running :
    /\ nodes[i].phase \in {"PrePreparing", "Preparing", "Checking", "Committing"}
    /\ nodes[i].working_block.kind # "None"
    /\ nodes[i].timeout = "Inactive"
    /\ nodes[i].calls = <<>> /\ nodes[i].broadcasts = <<>>

\* the distinct signers of the Checkpoint messages of a log that match m
CheckpointSigners(log, m) ==
  {x.signer_id : x \in {y \in log : /\ y.msg_type = "Checkpoint"
                                    /\ y.view = m.view /\ y.seq_num = m.seq_num}}

\* C13: a secondary receiving a Checkpoint m for a seq_num above its latest
\* stable checkpoint: when it is not in Checkpointing it saves its mode,
\* enters Checkpointing and rebroadcasts a Checkpoint for m.seq_num; while the
\* log holds fewer than 2f+1 distinct-signer Checkpoints matching m it is in
\* Checkpointing and its stable checkpoint is as before; with the message
\* that brings the count to 2f+1 the latest stable checkpoint is m.seq_num,
\* the log is garbage-collected and the saved mode restored
C13_CheckpointStabilization ==
  \A i \in Running : \A msg \in Deliverable("Checkpoint") :
    LET s == Fresh(nodes[i])
        m == msg.content
        r == on_peer_message(s, msg)
        own == Msg("Checkpoint", s.view, m.seq_num, s.id, EmptyBlock)
        first == s.mode # "Checkpointing"
        logged == s.log \cup {m} \cup (IF first THEN {own} ELSE {})
        saved == IF first THEN s.mode ELSE s.pre_checkpoint_mode
        lsc == r.s.latest_stable_checkpoint
    IN (~is_primary(s) /\ m.seq_num > get_latest_checkpoint(s)) =>
         /\ r.s.broadcasts = (IF first THEN <<own>> ELSE <<>>)
         /\ r.s.pre_checkpoint_mode = saved
         /\ IF Cardinality(CheckpointSigners(logged, m)) < 2 * F + 1
            THEN /\ r.s.mode = "Checkpointing"
                 /\ lsc = s.latest_stable_checkpoint
                 /\ r.s.log = logged
            ELSE /\ lsc.some /\ lsc.seq_num = m.seq_num
                 /\ r.s.mode = saved
                 /\ r.s.log = {x \in logged : \/ x.seq_num >= m.seq_num
                                              \/ x \in lsc.checkpoint_messages}

\* a secondary has declared a stable checkpoint with its own Checkpoint in
\* the proof and is back in the mode it had
C13_Witness ==
  \E i \in Running :
    /\ ~is_primary(nodes[i])
    /\ nodes[i].latest_stable_checkpoint.some
    /\ nodes[i].latest_stable_checkpoint.seq_num > 0
    /\ nodes[i].mode = nodes[i].pre_checkpoint_mode
    /\ Cardinality(Signers(nodes[i].latest_stable_checkpoint.checkpoint_messages))
         = 2 * F + 1
    /\ i \in Signers(nodes[i].latest_stable_checkpoint.checkpoint_messages)

\* C14: once a node has a stable checkpoint at seq_num s, in every later
\* state its log holds no message with seq_num < s other than the messages
\* of the checkpoint proof
C14_NoMessageBelowStableCheckpoint ==
  \A i \in Running :
    LET lsc == nodes[i].latest_stable_checkpoint
    IN lsc.some =>
         \A x \in nodes[i].log :
           x.seq_num >= lsc.seq_num \/ x \in lsc.checkpoint_messages

\* the distinct signers of the ViewChange messages that match m
ViewChangeSigners(view_changes, m) ==
  {x.signer_id : x \in {y \in view_changes : /\ y.view = m.view
                                             /\ y.seq_num = m.seq_num}}

\* the ViewChange a node broadcasts when it starts a view change
OwnViewChange(s) ==
  ViewChangeMsg(s.view + 1,
                IF s.latest_stable_checkpoint.some
                THEN s.latest_stable_checkpoint.seq_num ELSE 0,
                s.id,
                IF s.latest_stable_checkpoint.some
                THEN s.latest_stable_checkpoint.checkpoint_messages ELSE {})

\* C15: a node not in ViewChanging that receives a ViewChange m enters
\* ViewChanging (sets the mode and broadcasts its own ViewChange for
\* view + 1) exactly when m.view is greater than its view and, m included,
\* f+1 distinct-signer ViewChanges matching m are logged; it then stays in
\* ViewChanging unless its own ViewChange, delivered to itself, completes a
\* quorum of 2f+1.  In every other case m is logged and nothing else
\* changes (mode, view, phase and working_block among it)
C15_EntersViewChangingOnWeakQuorum ==
  \A i \in Running : \A msg \in Deliverable("ViewChange") :
    LET s == Fresh(nodes[i])
        m == msg.content
        r == on_peer_message(s, msg)
        logged == s.view_changes \cup {m}
        own == OwnViewChange(s)
        entered == r.s.broadcasts = <<own>>
        weak == /\ m.view > s.view
                /\ Cardinality(ViewChangeSigners(logged, m)) >= F + 1
        strong == Cardinality(ViewChangeSigners(logged \cup {own}, own)) >= 2 * F + 1
    IN s.mode # "ViewChanging" =>
         /\ entered <=> weak
         /\ (weak /\ ~strong) =>
              /\ r.s.mode = "ViewChanging" /\ r.s.view = s.view
              /\ r.s.phase = s.phase /\ r.s.working_block = s.working_block
              /\ r.s.view_changes = logged \cup {own}
         /\ ~weak => r = Ok([s EXCEPT !.view_changes = logged])

\* a node whose timer never ran is in ViewChanging after broadcasting its
\* ViewChange: peer messages made it enter
C15_Witness ==
  \E i \in Running :
    /\ nodes[i].mode = "ViewChanging"
    /\ nodes[i].log = {} /\ nodes[i].timeout = "Inactive"
    /\ nodes[i].broadcasts = <<OwnViewChange(nodes[i])>>
    /\ Cardinality(Signers(nodes[i].view_changes)) >= F + 1

\* the outcomes of every call the host can make on a node record
Outcomes(s) ==
  {on_peer_message(s, msg) : msg \in net}
  \cup {on_block_new(s, block) : block \in HostBlocks}
  \cup {on_block_valid(s, block.block_id) : block \in HostBlocks}
  \cup {on_block_commit(s, block.block_id) : block \in HostBlocks}
  \cup {try_publish(s), retry_backlog(s), start_view_change(s)}

\* the node record of a node that has just completed a view change
ViewChangeCompleted(t) ==
  /\ \E x \in t.view_changes :
       /\ x.view = t.view
       /\ Cardinality(ViewChangeSigners(t.view_changes, x)) >= 2 * F + 1
  /\ t.working_block = NoWorkingBlock /\ t.phase = "NotStarted"
  /\ t.mode = "Normal" /\ t.timeout = "Inactive"

\* C16: a node in ViewChanging that processes a ViewChange m completes the
\* view change exactly when, m included, 2f+1 distinct-signer ViewChanges
\* matching m are logged: it then has view = m.view, no working block, phase
\* NotStarted, mode Normal and a stopped timer; with fewer it logs m and
\* view, phase, working_block and the mode ViewChanging are unchanged.  No
\* call of any kind changes the view without such a quorum for the new view
C16_ViewChangeNeedsQuorum ==
  \A i \in Running :
    LET s == Fresh(nodes[i])
    IN /\ \A msg \in Deliverable("ViewChange") :
            LET m == msg.content
                r == on_peer_message(s, msg)
                logged == s.view_changes \cup {m}
            IN s.mode = "ViewChanging" =>
                 IF Cardinality(ViewChangeSigners(logged, m)) >= 2 * F + 1
                 THEN /\ r.res = "Ok" /\ r.s.view = m.view
                      /\ ViewChangeCompleted(r.s)
                 ELSE /\ r.res = "WrongNumMessages"
                      /\ r.s = [s EXCEPT !.view_changes = logged]
       /\ \A r \in Outcomes(s) :
            r.s.view # s.view => ViewChangeCompleted(r.s)

\* a node that was in ViewChanging has completed the change to view 1 on a
\* ViewChange it received
C16_Witness ==
  \E i \in Running :
    /\ nodes[i].view = 1 /\ ViewChangeCompleted(nodes[i])
    /\ nodes[i].broadcasts = <<>>
    /\ \E x \in nodes[i].view_changes : x.signer_id = i /\ x.view = 1

\* C17: in every reachable state a node's role is Primary if and only if
\* its id is the roster entry at view mod N, so that after a view change to
\* view v + 1 the primary is roster[(v + 1) mod N] and the others secondaries
C17_PrimaryIsRosterAtView ==
  \A i \in Running :
    /\ nodes[i].id = i
    /\ (nodes[i].role = "Primary") <=> (i = nodes[i].view % N)
    /\ nodes[i].role \in {"Primary", "Secondary"}

\* node 1 is the primary of view 1 after a completed view change
C17_Witness ==
  \E i \in Running :
    /\ i = 1 /\ nodes[i].view = 1 /\ nodes[i].role = "Primary"
    /\ CallsOf(nodes[i], "initialize_block") # {}

\* C18: a PrePrepare, Prepare, Commit or Checkpoint delivered to a node in
\* mode ViewChanging changes none of phase, seq_num, working_block and mode
\* and causes no broadcast, no check_blocks and no commit_block
C18_ViewChangingDropsOtherMessages ==
  \A i \in Running : \A msg \in net :
    LET s == Fresh(nodes[i])
        r == on_peer_message(s, msg)
    IN (s.mode = "ViewChanging" /\ msg.message_type # "ViewChange") =>
         /\ r.s.phase = s.phase /\ r.s.seq_num = s.seq_num
         /\ r.s.working_block = s.working_block /\ r.s.mode = s.mode
         /\ r.s.broadcasts = <<>>
         /\ CallsOf(r.s, "check_blocks") = {} /\ CallsOf(r.s, "commit_block") = {}

\* the progression BlockNew < PrePrepare < Prepare < Commit and the type a
\* phase expects, as the table of the not-ready verdict states them
Progression == <<"BlockNew", "PrePrepare", "Prepare", "Commit">>
Place(t) == CHOOSE k \in 1 .. Len(Progression) : Progression[k] = t
ExpectedIn(phase) ==
  CASE phase \in {"NotStarted", "PrePreparing"} -> "PrePrepare"
    [] phase \in {"Preparing", "Checking"}      -> "Prepare"
    [] phase \in {"Committing", "Finished"}     -> "Commit"

VerdictTable(n, phase, working_block, m) ==
  CASE m.seq_num > n -> "PushToBacklog"
    [] m.seq_num < n -> "AddToLog"
    [] m.seq_num = n /\ working_block.kind = "None" -> "AddToLog"
    [] m.seq_num = n /\ working_block.kind # "None"
         /\ Place(m.msg_type) < Place(ExpectedIn(phase)) -> "AddToLog"
    [] m.seq_num = n /\ working_block.kind # "None"
         /\ Place(m.msg_type) > Place(ExpectedIn(phase)) -> "PushToBacklog"
    [] m.seq_num = n /\ working_block.kind # "None"
         /\ m.msg_type = ExpectedIn(phase) -> "Proceed"

\* multicast messages of every type, view and sequence number
MulticastMsgs ==
  {Msg(t, v, q, p, PbB1) : t \in MulticastTypes, v \in 0 .. 1,
                           q \in 0 .. MaxSeq + 1, p \in 0 .. 1}

\* C19: for every PrePrepare, Prepare or Commit m and every reachable node
\* state the not-ready verdict is the one of the table; a Prepare or Commit
\* with the verdict PushToBacklog ends at the tail of the peer backlog, one
\* with AddToLog ends in the log, and both calls fail with NotReady, while
\* one with Proceed is logged and handled
C19_NotReadyVerdictTable ==
  \A i \in Running :
    LET s == Fresh(nodes[i])
    IN /\ \A m \in MulticastMsgs :
            _handle_multicast(s, m)
              = VerdictTable(s.seq_num, s.phase, s.working_block, m)
       /\ \A msg \in Deliverable("Prepare") \cup Deliverable("Commit") :
            LET m == msg.content
                v == VerdictTable(s.seq_num, s.phase, s.working_block, m)
                r == on_peer_message(s, msg)
            IN /\ v = "PushToBacklog" =>
                    r = Err([s EXCEPT !.backlog = Append(@, msg)], "NotReadyForMessage")
               /\ v = "AddToLog" =>
                    r = Err([s EXCEPT !.log = @ \cup {m}], "NotReadyForMessage")
               /\ v = "Proceed" => m \in r.s.log /\ r.res # "NotReadyForMessage"

\* a Commit for the current seq_num waits in the backlog of a node that has
\* a working block and expects a Prepare
C19_Witness ==
  \E i \in Running :
    /\ nodes[i].backlog # <<>>
    /\ nodes[i].working_block.kind # "None"
    /\ nodes[i].phase \in {"Preparing", "Checking"}
    /\ nodes[i].backlog[Len(nodes[i].backlog)].content.msg_type = "Commit"
    /\ nodes[i].backlog[Len(nodes[i].backlog)].content.seq_num = nodes[i].seq_num

\* the phase changes of a call are chained: each starts where the one before
\* it ended, the first at the phase before the call, the last at the phase
\* after it
Chained(before, phases, after) ==
  /\ \A k \in 1 .. Len(phases) :
       phases[k].from = (IF k = 1 THEN before ELSE phases[k - 1].to)
  /\ after = (IF phases = <<>> THEN before ELSE phases[Len(phases)].to)

\* a phase change is an advance to the immediate successor
Advance(c) == PhaseOrd(c.to) = PhaseOrd(c.from) + 1

\* C20: every change of a node's phase is an advance to the immediate
\* successor in NotStarted, PrePreparing, Preparing, Checking, Committing,
\* Finished, or a reset to NotStarted made by on_block_commit in phase
\* Finished or by a completed view change
C20_PhaseAdvancesOrResets ==
  \A i \in Running :
    LET s == Fresh(nodes[i])
    IN /\ \A r \in Outcomes(s) :
            /\ Chained(s.phase, r.s.phases, r.s.phase)
            /\ \A k \in 1 .. Len(r.s.phases) :
                 LET c == r.s.phases[k]
                 IN \/ Advance(c)
                    \/ /\ c.to = "NotStarted" /\ c.by = "_handle_view_change"
                       /\ \E x \in r.s.view_changes :
                            Cardinality(ViewChangeSigners(r.s.view_changes, x))
                              >= 2 * F + 1
                    \/ /\ c.to = "NotStarted" /\ c.from = "Finished"
                       /\ s.phase = "Finished" /\ k = 1
                       /\ r \in {on_block_commit(s, block.block_id) :
                                   block \in HostBlocks}
       /\ Chained(IF nodes[i].phases = <<>> THEN nodes[i].phase
                  ELSE nodes[i].phases[1].from,
                  nodes[i].phases, nodes[i].phase)

\* a node has gone through the six phases and on_block_commit has reset it
C20_Witness ==
  \E i \in Running :
    /\ nodes[i].phases = <<[from |-> "Finished", to |-> "NotStarted",
                            by |-> "switch_phase"]>>
    /\ Len(nodes[i].chain) > 1

\* C21: in every reachable state a node whose phase is Preparing, Checking or
\* Committing holds working_block = WorkingBlock(block); it is never in one of
\* these phases with working_block None or a TentativeWorkingBlock.
C21_AcceptedBlockInRound ==
  \A i \in Running :
    nodes[i].phase \in {"Preparing", "Checking", "Committing"}
      => nodes[i].working_block.kind = "Accepted"

\* C21 witness: a node has reached the Committing phase through on_block_valid.
C21_Witness ==
  \E i \in Running :
    /\ nodes[i].phase = "Committing"
    /\ nodes[i].working_block.kind = "Accepted"
    /\ \E k \in 1..Len(nodes[i].phases) : nodes[i].phases[k].to = "Committing"

\* C22: no call lowers a node's seq_num.  on_block_new adds one to the seq_num
\* of a primary and leaves that of a secondary alone; on_peer_message leaves
\* the seq_num of a primary alone and changes that of a secondary only to the
\* seq_num of the PrePrepare it handles, which is not below the old one;
\* on_block_valid, on_block_commit, try_publish and start_view_change leave
\* it alone, and retry_backlog, which composes the first two, never lowers it.
C22_SeqNumNeverDecreases ==
  \A i \in Running :
    LET s == Fresh(nodes[i])
    IN /\ \A r \in Outcomes(s) : r.s.seq_num >= s.seq_num
       /\ \A block \in HostBlocks :
            /\ on_block_new(s, block).s.seq_num
                 = IF is_primary(s) THEN s.seq_num + 1 ELSE s.seq_num
            /\ on_block_valid(s, block.block_id).s.seq_num = s.seq_num
            /\ on_block_commit(s, block.block_id).s.seq_num = s.seq_num
       /\ try_publish(s).s.seq_num = s.seq_num
       /\ start_view_change(s).s.seq_num = s.seq_num
       /\ \A msg \in net \cup {PeerMsg(m) : m \in MulticastMsgs} :
            LET r == on_peer_message(s, msg)
            IN /\ r.s.seq_num >= s.seq_num
               /\ r.s.seq_num # s.seq_num
                    => /\ ~is_primary(s)
                       /\ msg.message_type = "PrePrepare"
                       /\ r.s.seq_num = msg.content.seq_num

\* C22 witness: a secondary has just adopted the seq_num of a PrePrepare
\* above the one it had, and answered with its Prepare.
C22_Witness ==
  \E i \in Running :
    /\ ~is_primary(nodes[i])
    /\ nodes[i].seq_num > 0
    /\ nodes[i].phase = "Preparing"
    /\ \E k \in 1..Len(nodes[i].broadcasts) :
         /\ nodes[i].broadcasts[k].msg_type = "Prepare"
         /\ nodes[i].broadcasts[k].seq_num = nodes[i].seq_num

\* the retries after which a backlog of the bounded length has been redispatched
MaxRetries == 3

\* the node record after n calls of retry_backlog
RECURSIVE Retries(_, _)
Retries(s, n) == IF n = 0 THEN s ELSE Retries(retry_backlog(s).s, n - 1)

\* the call r of on_peer_message(s, msg) found the committed quorum of a
\* Commit complete and pushed the Commit onto the backlog, because the
\* block's previous_id is not the chain head
DeferredCommit(s, msg, r) ==
  /\ msg.message_type = "Commit"
  /\ s.phase = "Committing"
  /\ committed(add_message(s, msg.content), msg.content)
  /\ KnownBlock(msg.content.block.block_id)
  /\ BlockOf(msg.content.block.block_id).previous_id # get_chain_head(s).block_id
  /\ r.res = "BlockMismatch"
  /\ r.s.backlog = Append(s.backlog, msg)

\* the validator's chain head has become the predecessor of the block
HeadAdvanced(s, block_id) ==
  [s EXCEPT !.chain = Append(@, BlockOf(block_id).previous_id)]

\* C24: when a Commit that completes the committed quorum has been pushed on
\* the backlog because the block does not follow the chain head, and the
\* chain head then becomes the block's predecessor, calling retry_backlog
\* until the backlog has been gone through issues commit_block for the
\* block, or leaves the Commit waiting in the backlog of a node that is
\* still in the Committing phase
C24_DeferredCommitIsRetried ==
  \A i \in Running : \A msg \in Deliverable("Commit") :
    LET s == Fresh(nodes[i])
        r == on_peer_message(s, msg)
        id == msg.content.block.block_id
        t == Retries(HeadAdvanced(Fresh(r.s), id), MaxRetries)
    IN DeferredCommit(s, msg, r)
         => \/ \E k \in CallsOf(t, "commit_block") : t.calls[k].arg = id
            \/ /\ t.phase = "Committing"
               /\ \E k \in 1 .. Len(t.backlog) : t.backlog[k] = msg

\* decodable peer messages of every multicast type around contents of every
\* multicast type: the type a peer names outside need not be the one inside
EnvelopedMsgs ==
  {[message_type |-> t, decodes |-> TRUE, content |-> Msg(u, 0, q, 0, PbB1)] :
     t \in MulticastTypes, u \in MulticastTypes, q \in 0 .. MaxSeq + 1}

\* on_peer_message applies the verdict to msg: the verdict is not Proceed and
\* the PrePrepare branch does not ignore it
VerdictApplied(s, msg) ==
  /\ _handle_multicast(s, msg.content) # "Proceed"
  /\ ~ /\ msg.message_type = "PrePrepare"
       /\ s.working_block = TentativeWorkingBlock(msg.content.block.block_id)
       /\ msg.content.seq_num = s.seq_num + 1

\* the part of the effect of a verdict that both verdicts share
NotReadyFrame(s, r) ==
  /\ r.res = "NotReadyForMessage"
  /\ r.s.phase = s.phase
  /\ r.s.seq_num = s.seq_num
  /\ r.s.working_block = s.working_block
  /\ r.s.broadcasts = <<>>
  /\ r.s.calls = <<>>

\* C25 as stated: PushToBacklog appends the peer message as it was received
C25_NotReadyAsStated ==
  \A i \in Running : \A msg \in net \cup EnvelopedMsgs :
    LET s == Fresh(nodes[i])
        r == on_peer_message(s, msg)
        v == _handle_multicast(s, msg.content)
    IN msg.decodes /\ is_multicast(msg.message_type) /\ VerdictApplied(s, msg)
         => /\ NotReadyFrame(s, r)
            /\ v = "PushToBacklog"
                 => r.s.backlog = Append(s.backlog, msg) /\ r.s.log = s.log
            /\ v = "AddToLog"
                 => r.s.log = s.log \cup {msg.content} /\ r.s.backlog = s.backlog

\* C25: when on_peer_message applies a not-ready verdict, PushToBacklog
\* appends to the tail of the peer backlog a peer message that holds the raw
\* content under the message type the content names, which is the message
\* received when the two types agree, and leaves the log alone; AddToLog adds
\* the parsed message to the log and leaves the backlog alone; both return
\* NotReadyForMessage, leave phase, seq_num and working_block alone, broadcast
\* nothing and make no service call
C25_NotReady ==
  \A i \in Running : \A msg \in net \cup EnvelopedMsgs :
    LET s == Fresh(nodes[i])
        r == on_peer_message(s, msg)
        v == _handle_multicast(s, msg.content)
        n == Len(r.s.backlog)
    IN msg.decodes /\ is_multicast(msg.message_type) /\ VerdictApplied(s, msg)
         => /\ NotReadyFrame(s, r)
            /\ v = "PushToBacklog"
                 => /\ n = Len(s.backlog) + 1
                    /\ SubSeq(r.s.backlog, 1, n - 1) = s.backlog
                    /\ r.s.backlog[n].content = msg.content
                    /\ r.s.backlog[n].message_type = msg.content.msg_type
                    /\ msg.message_type = msg.content.msg_type
                         => r.s.backlog[n] = msg
                    /\ r.s.log = s.log
            /\ v = "AddToLog"
                 => r.s.log = s.log \cup {msg.content} /\ r.s.backlog = s.backlog

\* C25 witness: a Prepare that came before its time is at the tail of the
\* backlog of a node whose call broadcast nothing and called no service
C25_Witness ==
  \E i \in Running :
    /\ nodes[i].backlog # <<>>
    /\ nodes[i].backlog[Len(nodes[i].backlog)].message_type = "Prepare"
    /\ nodes[i].backlog[Len(nodes[i].backlog)].content \notin nodes[i].log
    /\ nodes[i].broadcasts = <<>>
    /\ nodes[i].calls = <<>>

\* Checkpoint messages of every view, sequence number and signer
CheckpointInputs ==
  {PeerMsg(Msg("Checkpoint", v, q, p, EmptyBlock)) :
     v \in 0 .. 1, q \in 0 .. MaxSeq + 1, p \in Roster}

\* C26: a Checkpoint message whose seq_num is not above the seq_num of the
\* latest stable checkpoint is dropped: the call succeeds and the node record
\* (log, mode, pre_checkpoint_mode, stable checkpoint and all the rest) is
\* as before; and no call of any entry point lowers the seq_num of the
\* latest stable checkpoint or forgets the checkpoint
C26_StaleCheckpointDropped ==
  \A i \in Running :
    LET s == Fresh(nodes[i])
        cp == s.latest_stable_checkpoint
    IN /\ \A msg \in Deliverable("Checkpoint") \cup CheckpointInputs :
            LET r == on_peer_message(s, msg)
            IN /\ cp.some /\ msg.content.seq_num <= cp.seq_num => r = Ok(s)
               /\ cp.some => /\ r.s.latest_stable_checkpoint.some
                             /\ r.s.latest_stable_checkpoint.seq_num >= cp.seq_num
       /\ \A r \in Outcomes(s) :
            cp.some => /\ r.s.latest_stable_checkpoint.some
                       /\ r.s.latest_stable_checkpoint.seq_num >= cp.seq_num

\* C26 witness: a node with a stable checkpoint has been handed once more a
\* Checkpoint message of that seq_num and is as it was
C26_Witness ==
  \E i \in Running : \E msg \in Deliverable("Checkpoint") :
    /\ nodes[i].latest_stable_checkpoint.some
    /\ msg.content.seq_num = nodes[i].latest_stable_checkpoint.seq_num
    /\ nodes[i].mode = "Normal"
    /\ nodes[i].calls = <<>> /\ nodes[i].broadcasts = <<>> /\ nodes[i].phases = <<>>
    /\ on_peer_message(nodes[i], msg) = Ok(nodes[i])

C28_PreCheckpointModeNotCheckpointing ==
  \A i \in Running :
    LET s == Fresh(nodes[i])
    IN /\ s.pre_checkpoint_mode # "Checkpointing"
       /\ start_checkpoint(s).s.pre_checkpoint_mode # "Checkpointing"
       /\ ~is_primary(s) \/ s.mode = "Checkpointing"
            => start_checkpoint(s) = Ok(s)
       /\ \A msg \in Deliverable("Checkpoint") \cup CheckpointInputs :
            LET r == on_peer_message(s, msg)
            IN /\ r.s.pre_checkpoint_mode # "Checkpointing"
               /\ s.mode = "Checkpointing"
                    => r.s.pre_checkpoint_mode = s.pre_checkpoint_mode
               /\ r.s.latest_stable_checkpoint # s.latest_stable_checkpoint
                    => /\ r.s.mode = r.s.pre_checkpoint_mode
                       /\ r.s.mode # "Checkpointing"

\* C28 witness: a secondary that entered Checkpointing from Normal mode has
\* reached the stable checkpoint and is back in Normal mode
C28_Witness ==
  \E i \in Running :
    /\ ~is_primary(nodes[i])
    /\ nodes[i].latest_stable_checkpoint.some
    /\ nodes[i].pre_checkpoint_mode = "Normal"
    /\ nodes[i].mode = "Normal"
    /\ \E m \in nodes[i].latest_stable_checkpoint.checkpoint_messages :
         m.signer_id = nodes[i].id

\* xs is the beginning of ys
IsPrefix(xs, ys) == Len(xs) <= Len(ys) /\ SubSeq(ys, 1, Len(xs)) = xs

\* the outcome of the peer half of retry_backlog: the oldest message of the
\* peer backlog, taken off it and handed to on_peer_message
PeerRedispatch(s) ==
  IF s.backlog = <<>> THEN Ok(s)
  ELSE on_peer_message([s EXCEPT !.backlog = Tail(s.backlog)], Head(s.backlog))

ConsensusTypes == {"PrePrepare", "Prepare", "Commit", "Checkpoint", "ViewChange"}

\* peer messages whose content does not decode, whatever bytes it holds
Undecodable(t) ==
  {[message_type |-> t, decodes |-> FALSE, content |-> m] :
     m \in {NoMsg} \cup {msg.content : msg \in net}}

\* peer messages of type t, decodable or not
OfType(t) ==
  {[message_type |-> t, decodes |-> d, content |-> m] :
     d \in BOOLEAN,
     m \in {NoMsg, Msg(t, 0, 1, 2, PbB1)} \cup {msg.content : msg \in net}}

\* C30: a peer message of a consensus type whose content does not decode
\* makes on_peer_message return SerializationError with the node as it was,
\* and a peer message of any other type returns success with the node as it
\* was
C30_UndecodableAndOtherTypes ==
  \A i \in Running :
    LET s == Fresh(nodes[i])
    IN /\ \A t \in ConsensusTypes : \A msg \in Undecodable(t) :
            on_peer_message(s, msg) = Err(s, "SerializationError")
       /\ \A t \in MessageTypes \ ConsensusTypes : \A msg \in OfType(t) :
            on_peer_message(s, msg) = Ok(s)

\* C30 witness: a node in the middle of a round, with messages in its log,
\* is handed a Prepare that does not decode and a message of type Unset
C30_Witness ==
  \E i \in Running :
    LET s == Fresh(nodes[i])
    IN /\ s.phase # "NotStarted"
       /\ s.log # {}
       /\ s.working_block # NoWorkingBlock
       /\ GarbageMsg("Prepare") \in net
       /\ PeerMsg(NoMsg) \in net
       /\ on_peer_message(s, GarbageMsg("Prepare")).res = "SerializationError"
       /\ on_peer_message(s, PeerMsg(NoMsg)) = Ok(s)

\* the peer messages of the round and of a checkpoint
RoundAndCheckpointTypes == {"PrePrepare", "Prepare", "Commit", "Checkpoint"}

PrePrepareInputs ==
  {msg \in net : msg.decodes /\ msg.message_type = "PrePrepare"}
  \cup {PeerMsg(m) : m \in {x \in MulticastMsgs : x.msg_type = "PrePrepare"}}
  \cup {PeerMsg(Msg("PrePrepare", v, q, 0, PbftBlock("B1", 0))) :
          v \in 0 .. 1, q \in 0 .. MaxSeq + 1}

\* on_peer_message hands the PrePrepare to _handle_pre_prepare, which
\* rejects it
RejectedPrePrepare(s, msg) ==
  LET m == msg.content
  IN /\ \/ _handle_multicast(s, m) = "Proceed"
        \/ /\ s.working_block = TentativeWorkingBlock(m.block.block_id)
           /\ m.seq_num = s.seq_num + 1
     /\ _handle_pre_prepare(s, m).res # "Ok"

\* C32: a PrePrepare that _handle_pre_prepare rejects leaves the node as it
\* was: seq_num, phase, working_block and the log are unchanged and nothing
\* is broadcast
C32_RejectedPrePrepareChangesNothing ==
  \A i \in Running : \A msg \in PrePrepareInputs :
    LET s == Fresh(nodes[i])
        r == on_peer_message(s, msg)
    IN RejectedPrePrepare(s, msg) =>
         /\ r.res \in {"ViewMismatch", "MessageExists", "WrongNumMessages",
                       "BlockMismatch"}
         /\ r.s.seq_num = s.seq_num
         /\ r.s.phase = s.phase
         /\ r.s.working_block = s.working_block
         /\ r.s.log = s.log
         /\ r.s.broadcasts = <<>>

\* what does hold: the rejected PrePrepare changes nothing but, on a
\* secondary that finds no BlockNew to rewrite, the seq_num, which is then
\* the PrePrepare's
C32_RejectedPrePrepareFrame ==
  \A i \in Running : \A msg \in PrePrepareInputs :
    LET s == Fresh(nodes[i])
        m == msg.content
        r == on_peer_message(s, msg)
    IN RejectedPrePrepare(s, msg) =>
         IF ~is_primary(s) /\ r.res = "WrongNumMessages"
         THEN r.s = [s EXCEPT !.seq_num = m.seq_num]
         ELSE r.s = s

\* the call that ended in node record t completed a view change
CompletedViewChange(t) ==
  \E k \in 1 .. Len(t.phases) : t.phases[k].by = "_handle_view_change"

\* C33: no call makes a node's view smaller, and a call that completes a
\* view change ends in a view greater than the one the node was in when it
\* entered ViewChanging, which is its view when the call begins, since the
\* view changes only when a view change completes
C33_ViewOnlyGrows ==
  \A i \in Running :
    LET s == Fresh(nodes[i])
    IN \A r \in Outcomes(s) :
         /\ r.s.view >= s.view
         /\ CompletedViewChange(r.s) => r.s.view > s.view
         /\ r.s.view # s.view => CompletedViewChange(r.s)

\* the PrePrepares node id has broadcast so far
SentBy(id) == {q \in sent : q.signer_id = id}

\* the PrePrepares r broadcasts are at most one, signed by the node, for its
\* view and with a seq_num above every PrePrepare the node broadcast before
NewPrePrepare(s, r) ==
  /\ Cardinality(PrePreparesOf(r)) <= 1
  /\ Len(SelectSeq(r.s.broadcasts, LAMBDA b : b.msg_type = "PrePrepare")) <= 1
  /\ \A p \in PrePreparesOf(r) :
       /\ p.signer_id = s.id
       /\ \A q \in SentBy(s.id) : p.seq_num > q.seq_num

\* C34: a node broadcasts a PrePrepare only from on_block_new, called by the
\* host or by retry_backlog for a backlogged block, while its role is
\* Primary, and each time with a seq_num greater than that of every
\* PrePrepare it broadcast before, so that no two PrePrepares it broadcasts
\* have the same (view, seq_num)
C34_OnePrePreparePerSeqNum ==
  /\ \A i \in Running :
       LET s == Fresh(nodes[i])
           p == PeerRedispatch(s)
       IN /\ \A block \in HostBlocks :
               LET r == on_block_new(s, block)
               IN /\ PrePreparesOf(r) # {} => is_primary(s) /\ s.role = "Primary"
                  /\ NewPrePrepare(s, r)
          /\ LET r == retry_backlog(s)
             IN /\ PrePreparesOf(r) # {} =>
                     /\ PrePreparesOf(p) = {}
                     /\ p.s.role = "Primary"
                     /\ p.s.block_backlog # <<>>
                     /\ p.s.mode = "Normal" /\ p.s.phase = "NotStarted"
                /\ NewPrePrepare(s, r)
          /\ \A r \in {on_peer_message(s, msg) :
                         msg \in net \cup {PeerMsg(m) : m \in MulticastMsgs}}
                      \cup {on_block_valid(s, block.block_id) : block \in HostBlocks}
                      \cup {on_block_commit(s, block.block_id) : block \in HostBlocks}
                      \cup {try_publish(s), start_view_change(s),
                            start_checkpoint(s), check_timeout_expired(s)} :
               PrePreparesOf(r) = {}
  /\ \A p \in sent : \A q \in sent :
       (p.signer_id = q.signer_id /\ p.view = q.view /\ p.seq_num = q.seq_num)
         => p = q

\* C34 witness: a node has broadcast two PrePrepares, the second in its last
\* call
C34_Witness ==
  \E i \in Running :
    /\ Cardinality(SentBy(i)) >= 2
    /\ \E k \in 1 .. Len(nodes[i].broadcasts) :
         /\ nodes[i].broadcasts[k].msg_type = "PrePrepare"
         /\ \E q \in SentBy(i) : q.seq_num < nodes[i].broadcasts[k].seq_num

\* the PrePrepares for B1 of every view, seq_num and roster member
SignedPrePrepares ==
  {PeerMsg(Msg("PrePrepare", v, q, p, PbB1)) :
     v \in 0 .. 1, q \in 0 .. MaxSeq + 1, p \in Roster}

\* the call with outcome r accepted the PrePrepare msg: the node has its
\* seq_num, the working block Accepted(m.block), went to Preparing, logged
\* it and broadcast its Prepare
AcceptedPrePrepare(s, msg, r) ==
  LET m == msg.content
  IN /\ r.s.seq_num = m.seq_num
     /\ r.s.working_block = WorkingBlock(m.block)
     /\ \E k \in 1 .. Len(r.s.phases) : r.s.phases[k].to = "Preparing"
     /\ m \in r.s.log
     /\ \E k \in 1 .. Len(r.s.broadcasts) :
          r.s.broadcasts[k] = Msg("Prepare", s.view, m.seq_num, s.id, m.block)

\* C35: a node accepts a PrePrepare only if its signer is the primary of the
\* message's view, the roster member at m.view mod N
C35_AcceptsOnlyFromPrimary ==
  \A i \in Running :
    \A msg \in SignedPrePrepares
               \cup {x \in net : x.decodes /\ x.message_type = "PrePrepare"} :
      LET s == Fresh(nodes[i])
          r == on_peer_message(s, msg)
      IN AcceptedPrePrepare(s, msg, r) => msg.content.signer_id = msg.content.view % N

(***************************************************************************)
(* The network of N nodes, none of them Byzantine.  Every node runs the    *)
(* handlers above; net holds the messages broadcast so far.  The network   *)
(* is asynchronous and here follows one family of schedules: it holds a    *)
(* message back until its receiver is ready to process it, delivers it to  *)
(* a node at most once, and delivers the pending messages in a fixed order *)
(* (view changes first, then by type, newest view first, and receiver).  A *)
(* validator answers its node before anything else happens, and a block    *)
(* arrives at a validator when the network is quiet; which validators a    *)
(* block reaches, and when the view-change timers expire, is free.  A node *)
(* record keeps the commit_block calls of all its calls.                   *)
(***************************************************************************)
\* start_view_change is not triggered beyond this view
MaxView == 1

\* the node that publishes a block when it is the primary
Publisher(block) == IF block = B1 THEN 0 ELSE 1

\* the blocks the validators are offered: two successors of the genesis block
NetBlocks == {B1, B2}

\* the network can deliver msg to the node now
Ready(s, msg) ==
  LET m == msg.content
  IN /\ m.signer_id # s.id
     /\ CASE msg.message_type = "ViewChange" ->
               m \notin s.view_changes /\ m.view > s.view
          [] msg.message_type = "PrePrepare" ->
               /\ m \notin s.log
               /\ \/ _handle_multicast(s, m) = "Proceed"
                  \/ /\ s.working_block = TentativeWorkingBlock(m.block.block_id)
                     /\ m.seq_num = s.seq_num + 1
          [] OTHER -> m \notin s.log /\ _handle_multicast(s, m) = "Proceed"

\* the place of a delivery in the order of the network
Rank(i, msg) ==
  LET t == IF msg.message_type = "ViewChange" THEN 0 ELSE TypeOrd(msg.message_type)
  IN ((t * (MaxView + 2) + (MaxView + 1 - msg.content.view)) * N + i) * N
       + msg.content.signer_id

Pending == {d \in Running \X net : Ready(nodes[d[1]], d[2])}

\* a validator owes its node an answer
HostPending(s) ==
  \/ s.phase = "Checking"
  \/ s.phase = "Finished" /\ Len(s.chain) > 1

\* the node records after a call of node i
NetAfter(i, r) ==
  [nodes EXCEPT ![i] =
     [r.s EXCEPT !.broadcasts = <<>>, !.phases = <<>>, !.timer = <<>>,
                 !.calls = SelectSeq(@, LAMBDA c : c.name = "commit_block")]]

\* the node record and the network after a call of node i
NetStep(i, r) ==
  /\ nodes' = NetAfter(i, r)
  /\ net' = net \cup {PeerMsg(r.s.broadcasts[k]) : k \in 1 .. Len(r.s.broadcasts)}
  /\ sent' = sent \cup PrePreparesOf(r)
  /\ UNCHANGED slow

NetInit ==
  /\ nodes = [i \in Roster |-> NewNode(i)]
  /\ net = {}
  /\ slow = {}
  /\ sent = {}

NetDeliver ==
  LET pending == Pending
  IN \E d \in pending :
       /\ \A i \in Running : ~HostPending(nodes[i])
       /\ \A e \in pending : Rank(d[1], d[2]) <= Rank(e[1], e[2])
       /\ NetStep(d[1], on_peer_message(nodes[d[1]], d[2]))

\* the validator of node i receives a published successor of its chain head
NetBlockNew ==
  \E i \in Running, block \in NetBlocks :
    /\ Pending = {}
    /\ \A j \in Running : ~HostPending(nodes[j])
    /\ nodes[i].phase = "NotStarted"
    /\ is_primary(nodes[Publisher(block)])
    /\ block.previous_id = get_chain_head(nodes[i]).block_id
    /\ block.previous_id = get_chain_head(nodes[Publisher(block)]).block_id
    /\ NetStep(i, on_block_new(nodes[i], block))

\* the validator of node i has checked the working block
NetBlockValid ==
  \E i \in Running :
    /\ nodes[i].phase = "Checking"
    /\ NetStep(i, on_block_valid(nodes[i], nodes[i].working_block.block.block_id))

\* the validator of node i has committed the block commit_block named
NetBlockCommit ==
  \E i \in Running :
    /\ nodes[i].phase = "Finished"
    /\ Len(nodes[i].chain) > 1
    /\ NetStep(i, on_block_commit(nodes[i], get_chain_head(nodes[i]).block_id))

\* the view-change timer of node i expires; the timers are long enough for
\* a node to have sent its Commit
NetTimeout ==
  \E i \in Running :
    /\ \A j \in Running : ~HostPending(nodes[j])
    /\ nodes[i].timeout = "Active"
    /\ nodes[i].phase = "Committing"
    /\ nodes[i].mode # "ViewChanging"
    /\ nodes[i].view < MaxView
    /\ NetStep(i, start_view_change(nodes[i]))

NetNext ==
  \/ NetDeliver
  \/ NetBlockNew
  \/ NetBlockValid
  \/ NetBlockCommit
  \/ NetTimeout

NetSpec == NetInit /\ [][NetNext]_vars

\* the blocks a node has committed, with the seq_num of the Commit
Commits(s) ==
  {[seq_num |-> s.calls[k].by.seq_num, block_id |-> s.calls[k].arg] :
     k \in CallsOf(s, "commit_block")}

\* C1: with N = 4, f = 1 and no Byzantine node at all, no two nodes call
\* commit_block for different blocks at the same seq_num
C1_Agreement ==
  \A i, j \in Running : \A ci \in Commits(nodes[i]), cj \in Commits(nodes[j]) :
    ci.seq_num = cj.seq_num => ci.block_id = cj.block_id

(***************************************************************************)
(* One fault-free round under fairness.  The N nodes are honest and in     *)
(* view 0, the host offers every node the block B1, no timer expires.  One *)
(* node, any of the N, is slow: the network delivers it the messages of    *)
(* the others in any order and at any time, its host and its retry_backlog *)
(* run at any time.  The other nodes are prompt: they are served before    *)
(* the slow node, in the order of their ids, and the network holds a       *)
(* message for a prompt node back until the node would not push it to its  *)
(* backlog.  A node receives its own broadcasts inside the call that makes *)
(* them, and every other message once.                                     *)
(***************************************************************************)
\* the network has delivered msg to the node: the node sent it, logged it
\* or holds it in its backlog
Delivered(s, msg) ==
  \/ msg.content.signer_id = s.id
  \/ msg.content \in s.log
  \/ \E k \in 1 .. Len(s.backlog) : s.backlog[k].content = msg.content

\* the host has delivered on_block_new to the node
GotBlock(s) == \E m \in s.log : m.msg_type = "BlockNew" /\ m.signer_id = s.id

\* on_peer_message would not push msg to the backlog
Accepts(s, msg) ==
  LET m == msg.content
  IN \/ _handle_multicast(s, m) # "PushToBacklog"
     \/ /\ msg.message_type = "PrePrepare"
        /\ s.working_block = TentativeWorkingBlock(m.block.block_id)
        /\ m.seq_num = s.seq_num + 1

\* the messages the network may deliver to node i now
LiveDeliverable(i) ==
  LET s == nodes[i]
      due == {msg \in net : ~Delivered(s, msg) /\ Accepts(s, msg)}
  IN IF i \in slow
     THEN {msg \in net : ~Delivered(s, msg)}
     ELSE {msg \in due : \A other \in due : Rank(i, msg) <= Rank(i, other)}

\* the entry points the network, the host and the retry loop call
LiveKinds ==
  {"on_block_new", "on_peer_message", "on_block_valid", "on_block_commit",
   "retry_backlog"}

\* the calls of a kind that can be made on node i now, as their outcomes
LiveCalls(i, kind) ==
  LET s == nodes[i]
  IN CASE kind = "on_block_new" ->
            IF GotBlock(s) THEN {} ELSE {on_block_new(s, B1)}
       [] kind = "on_peer_message" ->
            {on_peer_message(s, msg) : msg \in LiveDeliverable(i)}
       [] kind = "on_block_valid" ->
            IF s.phase = "Checking"
            THEN {on_block_valid(s, s.working_block.block.block_id)} ELSE {}
       [] kind = "on_block_commit" ->
            IF s.phase = "Finished" /\ Len(s.chain) > 1
            THEN {on_block_commit(s, get_chain_head(s).block_id)} ELSE {}
       [] kind = "retry_backlog" ->
            IF s.backlog # <<>> THEN {retry_backlog(s)} ELSE {}

\* a prompt node has a call of the network or the host to take
Prompt(i) ==
  \E kind \in LiveKinds \ {"retry_backlog"} : LiveCalls(i, kind) # {}

\* the prompt nodes go first, in the order of their ids
Turn(i) == \A j \in Roster \ slow : (i \in slow \/ j < i) => ~Prompt(j)

\* one call of the kind on node i
LiveAct(i, kind) ==
  /\ Turn(i)
  /\ \E r \in LiveCalls(i, kind) : NetStep(i, r)

\* ENABLED <<LiveAct(i, kind)>>_vars as a state predicate: a call of the
\* kind can be made and changes a node record or the network
LiveEnabled(i, kind) ==
  /\ Turn(i)
  /\ \E r \in LiveCalls(i, kind) :
       \/ NetAfter(i, r) # nodes
       \/ \E k \in 1 .. Len(r.s.broadcasts) : PeerMsg(r.s.broadcasts[k]) \notin net

LiveBlockNew == \E i \in Roster : LiveAct(i, "on_block_new")

LiveDeliver == \E i \in Roster : LiveAct(i, "on_peer_message")

LiveBlockValid == \E i \in Roster : LiveAct(i, "on_block_valid")

LiveBlockCommit == \E i \in Roster : LiveAct(i, "on_block_commit")

LiveRetryBacklog == \E i \in Roster : LiveAct(i, "retry_backlog")

LiveNext ==
  \/ LiveBlockNew
  \/ LiveDeliver
  \/ LiveBlockValid
  \/ LiveBlockCommit
  \/ LiveRetryBacklog

LiveInit ==
  /\ nodes = [i \in Roster |-> NewNode(i)]
  /\ net = {}
  /\ sent = {}
  /\ \E o \in Roster : slow = {o}

\* WF_vars(LiveAct(i, kind)), with ENABLED written as LiveEnabled: a call
\* that stays possible is eventually made
WeakFair(i, kind) ==
  []<>(~LiveEnabled(i, kind)) \/ []<><<LiveAct(i, kind)>>_vars

\* every message is eventually delivered, the host eventually offers the
\* block and answers check_blocks and commit_block, and retry_backlog is
\* called again and again
LiveSpec ==
  /\ LiveInit
  /\ [][LiveNext]_vars
  /\ \A i \in Roster : \A kind \in LiveKinds : WeakFair(i, kind)

\* the node has issued commit_block(B1) and is back in NotStarted
RoundDone(s) ==
  /\ s.phase = "NotStarted"
  /\ \E k \in CallsOf(s, "commit_block") : s.calls[k].arg = B1.block_id

\* C23: in a fault-free round of N = 4 honest nodes of one view, where every
\* broadcast is eventually delivered, the host offers every node the block
\* and answers every check_blocks and commit_block, and retry_backlog is
\* called again and again, every node eventually issues commit_block for
\* the block and returns to NotStarted, in whatever order its messages come
C23_RoundCompletes == <>(\A i \in Roster : RoundDone(nodes[i]))

\* C23 witness: every node has completed the round, and the slow node still
\* holds in its backlog a message that reached it before its time
C23_Witness ==
  /\ \A i \in Roster : RoundDone(nodes[i])
  /\ \E o \in slow : nodes[o].backlog # <<>>

====
